---------------------------- MODULE Spec2Model ----------------------------
(***************************************************************************)
(* Model of the resilience engine of src/api/resilience.                   *)
(*                                                                         *)
(* SpecCB : one CircuitBreaker (circuit_breaker.py) called by concurrent   *)
(*          asyncio tasks, with a wall clock.                              *)
(* SpecRM : one RetryManager.execute run (retry_manager.py).               *)
(*                                                                         *)
(* asyncio runs one task at a time and switches tasks only at an await     *)
(* that really suspends.  Acquiring a free asyncio.Lock and awaiting a     *)
(* coroutine that does not suspend do not switch tasks, so the only        *)
(* suspension point of CircuitBreaker.call is `await func(...)`.  The      *)
(* model keeps the lock explicit: a step takes the lock, the next step of  *)
(* the holder runs the locked block and releases it.                       *)
(***************************************************************************)
EXTENDS Integers, Sequences, FiniteSets, TLC

(* ------------------------------ bounds --------------------------------- *)
MaxCalls == 4
MaxTime == 2
MaxAttemptsBound == 3
MaxFallbacks == 3
MaxExecutes == 2
MaxRequests == 2
MaxIterations == 3
MaxMagnitude == 3
MaxStarts == 2
MaxRounds == 2
MaxGets == 4
MaxResets == 1

(* ------------------------------ values --------------------------------- *)
CLOSED == "closed"
OPEN == "open"
HALF_OPEN == "half_open"
CircuitState == {CLOSED, OPEN, HALF_OPEN}

\* Optional[datetime] = None
NoTime == 0 - 1
\* asyncio.Lock not held
Free == "free"

\* the asyncio tasks that call the breaker
Tasks == {"t1", "t2"}

\* exception classes a wrapped function may raise
ExcKinds == {"ValueError", "ConnectionError"}

FailureThresholds == {1, 2}
SuccessThresholds == {1, 2}
TimeoutSeconds == {1, 2}
HalfOpenMaxCalls == {1, 2}
ExcludedChoices == {{}, {"ValueError"}}

CircuitBreakerConfig ==
    [failure_threshold : FailureThresholds,
     success_threshold : SuccessThresholds,
     timeout_seconds : TimeoutSeconds,
     half_open_max_calls : HalfOpenMaxCalls,
     excluded_exceptions : ExcludedChoices]

VARIABLES
    config,     \* CircuitBreaker.config
    cb,         \* the CircuitBreaker's fields
    lock,       \* CircuitBreaker._lock: Free or the task holding it
    pc,         \* where each task is inside CircuitBreaker.call
    result,     \* how each task's last call ended
    now,        \* datetime.now()
    hist,       \* history of the breaker, for stating the properties
    rm,         \* the RetryManager and its execute run
    fc,         \* the FallbackChain and its execute run
    rs,         \* the ResilientService and its call_dependency run
    an,         \* the ConfigAnnealer and its run_annealing run
    hm,         \* the HealthMonitor, its loop tasks and stop() callers
    pt,         \* a ConfigParameter and the value perturb returned
    os,         \* the services get_overall_status is applied to, its answer
    ap          \* the AvatarPoolManager

vars ==
    <<config, cb, lock, pc, result, now, hist, rm, fc, rs, an, hm, pt, os, ap>>

\* the variables of each component, and those a component leaves alone
cbVars == <<config, cb, lock, pc, result, now, hist>>
notCB == <<rm, fc, rs, an, hm, pt, os, ap>>
notRM == <<cbVars, fc, rs, an, hm, pt, os, ap>>
notFC == <<cbVars, rm, rs, an, hm, pt, os, ap>>
notAN == <<cbVars, rm, fc, rs, hm, pt, os, ap>>
notHM == <<cbVars, rm, fc, rs, an, pt, os, ap>>
notPT == <<cbVars, rm, fc, rs, an, hm, os, ap>>
notOS == <<cbVars, rm, fc, rs, an, hm, pt, ap>>
notAP == <<cbVars, rm, fc, rs, an, hm, pt, os>>

(* --------------------------- CircuitBreaker ----------------------------- *)

\* CircuitBreaker.__init__
CircuitBreakerInit ==
    [state |-> CLOSED,
     failure_count |-> 0,
     success_count |-> 0,
     last_failure_time |-> NoTime,
     half_open_calls |-> 0,
     total_calls |-> 0,
     total_failures |-> 0]

\* CircuitBreaker._transition_to (last_state_change, which only get_status
\* reads, is left out of the breaker's fields)
_transition_to(b, new_state, t) ==
    [b EXCEPT !.state = new_state]

\* mutant: the timeout must be exceeded, not reached
_can_execute_late(b, cfg, t) ==
    IF b.state = CLOSED
    THEN [ok |-> TRUE, wait |-> 0, cb |-> b]
    ELSE IF b.state = OPEN
    THEN IF b.last_failure_time # NoTime /\ t - b.last_failure_time > cfg.timeout_seconds
         THEN [ok |-> TRUE, wait |-> 0,
               cb |-> [b EXCEPT !.state = HALF_OPEN, !.half_open_calls = 0]]
         ELSE [ok |-> FALSE, wait |-> cfg.timeout_seconds, cb |-> b]
    ELSE IF b.half_open_calls < cfg.half_open_max_calls
         THEN [ok |-> TRUE, wait |-> 0,
               cb |-> [b EXCEPT !.half_open_calls = @ + 1]]
         ELSE [ok |-> FALSE, wait |-> 0, cb |-> b]

\* mutant: HalfOpen counts and admits every call
_can_execute_uncapped(b, cfg, t) ==
    IF b.state = CLOSED
    THEN [ok |-> TRUE, wait |-> 0, cb |-> b]
    ELSE IF b.state = OPEN
    THEN IF b.last_failure_time # NoTime
         THEN LET elapsed == t - b.last_failure_time IN
              IF elapsed >= cfg.timeout_seconds
              THEN [ok |-> TRUE, wait |-> 0,
                    cb |-> [b EXCEPT !.state = HALF_OPEN,
                                     !.half_open_calls = 0]]
              ELSE [ok |-> FALSE, wait |-> cfg.timeout_seconds - elapsed,
                    cb |-> b]
         ELSE [ok |-> FALSE, wait |-> cfg.timeout_seconds, cb |-> b]
    ELSE [ok |-> TRUE, wait |-> 0,
          cb |-> [b EXCEPT !.half_open_calls = @ + 1]]

\* mutant: every call is admitted
_can_execute_always(b, cfg, t) == [ok |-> TRUE, wait |-> 0, cb |-> b]

\* CircuitBreaker._can_execute: (can_execute, time_until_retry) and the
\* breaker after the call
_can_execute(b, cfg, t) ==
    IF b.state = CLOSED
    THEN [ok |-> TRUE, wait |-> 0, cb |-> b]
    ELSE IF b.state = OPEN
    THEN IF b.last_failure_time # NoTime
         THEN LET elapsed == t - b.last_failure_time IN
              IF elapsed >= cfg.timeout_seconds
              THEN [ok |-> TRUE, wait |-> 0,
                    cb |-> [_transition_to(b, HALF_OPEN, t)
                                EXCEPT !.half_open_calls = 0]]
              ELSE [ok |-> FALSE, wait |-> cfg.timeout_seconds - elapsed,
                    cb |-> b]
         ELSE [ok |-> FALSE, wait |-> cfg.timeout_seconds, cb |-> b]
    ELSE IF b.state = HALF_OPEN
    THEN IF b.half_open_calls < cfg.half_open_max_calls
         THEN [ok |-> TRUE, wait |-> 0,
               cb |-> [b EXCEPT !.half_open_calls = @ + 1]]
         ELSE [ok |-> FALSE, wait |-> 0, cb |-> b]
    ELSE [ok |-> FALSE, wait |-> 0, cb |-> b]

\* mutant: closing leaves failure_count as it was
_on_success_keeps_failures(b, cfg, t) ==
    IF b.state = HALF_OPEN
    THEN LET b1 == [b EXCEPT !.success_count = @ + 1] IN
         IF b1.success_count >= cfg.success_threshold
         THEN [b1 EXCEPT !.state = CLOSED, !.success_count = 0]
         ELSE b1
    ELSE IF b.state = CLOSED
    THEN [b EXCEPT !.failure_count = IF @ - 1 > 0 THEN @ - 1 ELSE 0]
    ELSE b

\* mutant: closes on enough successes whatever the state
_on_success_any_state(b, cfg, t) ==
    LET b1 == [b EXCEPT !.success_count = @ + 1] IN
    IF b1.success_count >= cfg.success_threshold
    THEN [_transition_to(b1, CLOSED, t)
              EXCEPT !.failure_count = 0, !.success_count = 0]
    ELSE b1

\* mutant: the decrement in Closed has no floor
_on_success_no_floor(b, cfg, t) ==
    IF b.state = HALF_OPEN
    THEN LET b1 == [b EXCEPT !.success_count = @ + 1] IN
         IF b1.success_count >= cfg.success_threshold
         THEN [b1 EXCEPT !.state = CLOSED,
                         !.failure_count = 0, !.success_count = 0]
         ELSE b1
    ELSE IF b.state = CLOSED
    THEN [b EXCEPT !.failure_count = @ - 1]
    ELSE b

\* CircuitBreaker._on_success, the block under the lock
_on_success(b, cfg, t) ==
    IF b.state = HALF_OPEN
    THEN LET b1 == [b EXCEPT !.success_count = @ + 1] IN
         IF b1.success_count >= cfg.success_threshold
         THEN [_transition_to(b1, CLOSED, t)
                   EXCEPT !.failure_count = 0, !.success_count = 0]
         ELSE b1
    ELSE IF b.state = CLOSED
    THEN [b EXCEPT !.failure_count = IF @ - 1 > 0 THEN @ - 1 ELSE 0]
    ELSE b

\* mutant: a failure in HalfOpen is only counted
_on_failure_closed_only(b, cfg, t) ==
    LET b1 == [b EXCEPT !.failure_count = @ + 1,
                        !.total_failures = @ + 1,
                        !.last_failure_time = t] IN
    IF b1.state = CLOSED /\ b1.failure_count >= cfg.failure_threshold
    THEN [b1 EXCEPT !.state = OPEN]
    ELSE b1

\* mutant: opens only when the threshold is exceeded
_on_failure_off_by_one(b, cfg, t) ==
    LET b1 == [b EXCEPT !.failure_count = @ + 1,
                        !.total_failures = @ + 1,
                        !.last_failure_time = t] IN
    IF b1.state = HALF_OPEN
    THEN _transition_to(b1, OPEN, t)
    ELSE IF b1.state = CLOSED /\ b1.failure_count > cfg.failure_threshold
    THEN _transition_to(b1, OPEN, t)
    ELSE b1

\* CircuitBreaker._on_failure, the block under the lock
_on_failure(b, cfg, t) ==
    LET b1 == [b EXCEPT !.failure_count = @ + 1,
                        !.total_failures = @ + 1,
                        !.last_failure_time = t] IN
    IF b1.state = HALF_OPEN
    THEN _transition_to(b1, OPEN, t)
    ELSE IF b1.state = CLOSED /\ b1.failure_count >= cfg.failure_threshold
    THEN _transition_to(b1, OPEN, t)
    ELSE b1

\* mutant: the counters are cleared and the state is left as it is
reset_keeps_state(b, t) ==
    [b EXCEPT !.failure_count = 0,
              !.success_count = 0,
              !.half_open_calls = 0]

\* CircuitBreaker.reset
reset(b, t) ==
    [b EXCEPT !.state = CLOSED,
              !.failure_count = 0,
              !.success_count = 0,
              !.half_open_calls = 0]

\* mutant: no `except self.config.excluded_exceptions` clause
ExceptClauseNoExclusion(e, cfg) == "on_failure"

\* the except clauses of CircuitBreaker.call, in order
ExceptClause(e, cfg) ==
    IF e \in cfg.excluded_exceptions THEN "reraise" ELSE "on_failure"


(* ----------------------------- RetryManager ----------------------------- *)

\* exception classes the retried function may raise
RetryExcKinds == {"TimeoutError", "ValueError", "KeyError"}

\* an exception object: its class and the invocation that raised it
NoException == [kind |-> "None", n |-> 0]

\* RetryConfig.jitter_range, in percent
JitterRangePct == 25
\* values of random.random() in [0, 1), in percent
RandomSamples == {0, 50, 99}

\* RetryConfig: delays in seconds; retryable_exceptions = (Exception,)
\* matches every class
RetryConfigDefault ==
    [max_attempts |-> 3, base_delay |-> 1, max_delay |-> 60,
     exponential_base |-> 2, jitter |-> TRUE,
     retryable_exceptions |-> RetryExcKinds,
     non_retryable_exceptions |-> {}]

RetryConfigs ==
    [max_attempts : 0..MaxAttemptsBound,
     base_delay : {1, 2},
     max_delay : {3, 60},
     exponential_base : {2},
     jitter : BOOLEAN,
     retryable_exceptions : {RetryExcKinds, {"TimeoutError", "ValueError"}},
     non_retryable_exceptions : {{}, {"ValueError"}}]

\* RetryManager.__init__, and the locals of execute
RetryManagerInit(cfg) ==
    [pc |-> "idle", config |-> cfg,
     total_retries |-> 0, successful_retries |-> 0,
     attempt |-> 0, last_exception |-> NoException,
     outcomes |-> <<>>, sleeps |-> <<>>,
     raised |-> NoException]

RECURSIVE Pow(_, _)
Pow(b, n) == IF n = 0 THEN 1 ELSE b * Pow(b, n - 1)

Min(a, b) == IF a < b THEN a ELSE b

\* mutant: the attempt number is taken as one-indexed
calculate_delay_one_indexed(cfg, attempt, rnd) ==
    LET delay == Min(cfg.base_delay * Pow(cfg.exponential_base, attempt + 1),
                     cfg.max_delay) IN
    IF cfg.jitter
    THEN delay * (100 + ((rnd - 50) * JitterRangePct * 2) \div 100)
    ELSE delay * 100

\* RetryManager.calculate_delay, in hundredths of a second; rnd is the value
\* of random.random() in percent
calculate_delay(cfg, attempt, rnd) ==
    LET delay == Min(cfg.base_delay * Pow(cfg.exponential_base, attempt),
                     cfg.max_delay) IN
    IF cfg.jitter
    THEN delay * (100 + ((rnd - 50) * JitterRangePct * 2) \div 100)
    ELSE delay * 100

\* mutant: reports the index of the last attempt
RetryExhaustedErrorLastIndex(cfg, attempt, last_exception) ==
    [kind |-> "RetryExhaustedError", attempts |-> attempt,
     last_error |-> last_exception]

\* raise RetryExhaustedError(self.config.max_attempts, last_exception)
RetryExhaustedError(cfg, attempt, last_exception) ==
    [kind |-> "RetryExhaustedError", attempts |-> cfg.max_attempts,
     last_error |-> last_exception]

\* mutant: the retryable clause comes first
RetryExceptClauseRetryableFirst(k, cfg) ==
    IF k \in cfg.retryable_exceptions THEN "retryable"
    ELSE IF k \in cfg.non_retryable_exceptions THEN "non_retryable"
    ELSE "uncaught"

\* the except clauses of RetryManager.execute, in order
RetryExceptClause(k, cfg) ==
    IF k \in cfg.non_retryable_exceptions THEN "non_retryable"
    ELSE IF k \in cfg.retryable_exceptions THEN "retryable"
    ELSE "uncaught"

(* ----------------------------- FallbackChain ---------------------------- *)

\* the primary option's number; fallback k is the k-th one added
PrimaryId == 0

Priorities == {0, 1, 2}
\* add_fallback's default name, and another one
FallbackNames == {"fallback", "backup"}

NoFallback == [priority |-> 0, name |-> "none", id |-> PrimaryId]

\* what is remembered of the current or last execute, for stating the
\* properties: the options invoked, how it ended, the chain and the counters
\* when it began, and whether add_fallback ran while it was suspended
RunInit ==
    [outcome |-> "none", by |-> PrimaryId, invoked |-> <<>>, raised |-> <<>>,
     chain |-> <<>>, provider_before |-> "primary", total_before |-> 0,
     fallback_before |-> 0, changed |-> FALSE]

\* FallbackChain(name, primary), and the locals of execute
FallbackChainInit ==
    [fallbacks |-> <<>>, current_provider |-> "primary",
     total_calls |-> 0, fallback_calls |-> 0,
     pc |-> "idle", idx |-> 0, cur |-> NoFallback, errors |-> <<>>,
     run |-> RunInit]

\* list.sort(key=lambda x: x[0]): a stable sort, by insertion
RECURSIVE SortByPriority(_)
SortByPriority(s) ==
    IF s = <<>> THEN <<>>
    ELSE LET t == SortByPriority(SubSeq(s, 1, Len(s) - 1))
             x == s[Len(s)]
             k == Cardinality({i \in 1..Len(t) : t[i].priority <= x.priority})
         IN SubSeq(t, 1, k) \o <<x>> \o SubSeq(t, k + 1, Len(t))

\* mutant: the list is not sorted after the append
add_fallback_unsorted(fallbacks, priority, name) ==
    Append(fallbacks,
           [priority |-> priority, name |-> name, id |-> Len(fallbacks) + 1])

\* FallbackChain.add_fallback
add_fallback(fallbacks, priority, name) ==
    SortByPriority(Append(fallbacks,
        [priority |-> priority, name |-> name, id |-> Len(fallbacks) + 1]))

\* mutant: only the last error is reported
error_summary_last_only(errors) ==
    IF errors = <<>> THEN <<>> ELSE <<errors[Len(errors)]>>

\* error_summary of execute: "name: exception" of every failed attempt
error_summary(errors) == errors

\* mutant: current_provider is not updated
on_fallback_success_stale(c) ==
    [c EXCEPT !.fallback_calls = @ + 1]

\* execute, after a fallback returned
on_fallback_success(c) ==
    [c EXCEPT !.fallback_calls = @ + 1, !.current_provider = c.cur.name]

\* execute up to the call of primary: total_calls += 1, errors = []
execute_begin(c) ==
    [c EXCEPT !.total_calls = @ + 1,
              !.errors = <<>>,
              !.pc = "primary",
              !.idx = 0,
              !.cur = NoFallback,
              !.run = [RunInit EXCEPT
                         !.invoked = <<PrimaryId>>,
                         !.chain = c.fallbacks,
                         !.provider_before = c.current_provider,
                         !.total_before = c.total_calls,
                         !.fallback_before = c.fallback_calls]]

\* the for loop of execute reaches index i (from 1) of self.fallbacks as it
\* is now: the next fallback is invoked, or all options are exhausted
NextOption(c, i) ==
    IF i <= Len(c.fallbacks)
    THEN [c EXCEPT !.pc = "fallback", !.idx = i, !.cur = c.fallbacks[i],
                   !.run.invoked = Append(@, c.fallbacks[i].id)]
    ELSE [c EXCEPT !.pc = "idle", !.idx = i,
                   !.run.outcome = "raised",
                   !.run.raised = error_summary(c.errors)]

(* --------------------------- ResilientService --------------------------- *)

\* the dependency name passed to call_dependency
Dep == "dep"

\* raise CircuitOpenError(self.name, time_until_retry)
CircuitOpenError(time_until_retry) ==
    [kind |-> "CircuitOpenError", wait |-> time_until_retry]

\* what is remembered of the current or last call_dependency, for stating
\* the properties: the breaker and the retry manager when it began, the
\* exception of the composed call, and what reached the caller
CallInit ==
    [open_at_entry |-> FALSE, admitted |-> FALSE,
     cb_before |-> CircuitBreakerInit, retries_before |-> 0,
     fc_calls_before |-> 0, errors_before |-> 0,
     invocations |-> 0, sleeps |-> 0,
     exc |-> NoException, outcome |-> "none", raised |-> NoException,
     chain_by |-> PrimaryId, chain_errors |-> <<>>]

\* RetryManager.execute is over: its locals are gone
execute_end(r) ==
    [r EXCEPT !.pc = "idle", !.attempt = 0, !.last_exception = NoException,
              !.outcomes = <<>>, !.sleeps = <<>>, !.raised = NoException]

\* ResilientService.__init__, with the fallback chains registered at startup
ResilientServiceInit(chains) ==
    [pc |-> "idle", chains |-> chains,
     _request_count |-> 0, _error_count |-> 0, call |-> CallInit,
     resets |-> 0]

\* mutant: the fallback chain is not used when the circuit is open
except_clause_open_raises(e, chains) ==
    IF e.kind = "CircuitOpenError" THEN "raise"
    ELSE IF Dep \in chains THEN "fallback" ELSE "raise"

\* the two except clauses of call_dependency, use_fallback left at True:
\* both delegate to the chain registered for the name, or re-raise
except_clause(e, chains) ==
    IF e.kind = "CircuitOpenError"
    THEN IF Dep \in chains THEN "fallback" ELSE "raise"
    ELSE IF Dep \in chains THEN "fallback" ELSE "raise"

\* call_dependency after the composed call raised e: _error_count, then
\* the fallback chain is entered or e is raised again
call_dependency_except(r, e) ==
    LET r1 == [r EXCEPT !._error_count =
                    IF e.kind = "CircuitOpenError" THEN @ ELSE @ + 1,
                        !.call.exc = e] IN
    IF except_clause(e, r.chains) = "fallback"
    THEN [r1 EXCEPT !.pc = "fallback"]
    ELSE [r1 EXCEPT !.pc = "idle", !.call.outcome = "raise", !.call.raised = e]

\* reset_metrics: both counters back to zero, whatever call is in flight;
\* resets counts the calls of it
reset_metrics(r) ==
    [r EXCEPT !._request_count = 0, !._error_count = 0, !.resets = @ + 1]

(* ----------------------------- ConfigAnnealer --------------------------- *)

\* names of tunable parameters, as registered by _setup_tunable_parameters
ParamNames == {"db_pool_size", "ai_retry_attempts"}

\* parameter values are counted in halves: Unit stands for 1.0
Unit == 2

\* min_value and max_value of the parameters registered
ParamRange == [min_value |-> Unit, max_value |-> 2 * Unit]

\* current_value given to ConfigParameter: int(os.getenv(...)), any integer
InitialValues == {0, Unit, 3 * Unit}

\* the arguments of ConfigAnnealer(...), temperatures in hundredths
AnnealerArgs ==
    [initial_temperature |-> 100, cooling_rate |-> 50,
     min_temperature |-> 25, iterations_per_temp |-> 2]

\* early_stop_iterations given to run_annealing
EarlyStopChoices == {2}

\* scores calculate_score gives to the metrics collected; lower is better
Scores == {1, 2}
\* float('inf')
InfScore == Cardinality(Scores) + 1

Max(a, b) == IF a > b THEN a ELSE b

\* int(x): truncation towards zero
int(x) ==
    IF x >= 0 THEN (x \div Unit) * Unit ELSE 0 - (((0 - x) \div Unit) * Unit)

\* ConfigParameter.clamp
clamp(param, value) ==
    LET clamped == Max(param.min_value, Min(param.max_value, value))
    IN IF param.is_integer THEN int(clamped) ELSE clamped

\* the values current_value + random.gauss(...) is clamped from: any value
\* below, inside or above the range
NewValues(param) ==
    (Min(param.min_value, param.current_value) - Unit)
        ..(Max(param.max_value, param.current_value) + Unit)

\* the values ConfigParameter.perturb can return
perturb(param) == {clamp(param, v) : v \in NewValues(param)}

\* ConfigParameter(name, current_value, min_value, max_value, step,
\* is_integer) after __post_init__; typed_int says current_value is an int
ConfigParameter(current_value, min_value, max_value, is_integer, typed_int) ==
    [current_value |-> current_value,
     min_value |-> min_value, max_value |-> max_value,
     is_integer |-> is_integer \/ typed_int]

\* the parameters perturb is applied to: bounds and value in halves from
\* -MaxMagnitude to MaxMagnitude with min_value <= max_value, declared
\* integer or not, and the value given as an int only when it is whole
PerturbValues == (0 - MaxMagnitude)..MaxMagnitude

PerturbParams ==
    {ConfigParameter(q[1], q[2], q[3], q[4], q[5]) :
        q \in {r \in PerturbValues \X PerturbValues \X PerturbValues
                        \X BOOLEAN \X BOOLEAN :
                  r[2] <= r[3] /\ (r[5] => r[1] % Unit = 0)}}

\* no parameter under perturb
NoPerturb == [param |-> <<>>, out |-> 0, pc |-> "none"]

\* AnnealingState(temperature=initial_temperature)
AnnealingState ==
    [temperature |-> AnnealerArgs.initial_temperature,
     best_score |-> InfScore, current_score |-> InfScore,
     best_config |-> <<>>, iteration |-> 0, last_improvement |-> 0]

\* ConfigAnnealer.__init__, and the locals of run_annealing and anneal_step
ConfigAnnealerInit ==
    [parameters |-> <<>>, state |-> AnnealingState, _running |-> FALSE,
     pc |-> "idle", max_iterations |-> 0, early_stop_iterations |-> 0,
     inner |-> 0, new_config |-> <<>>, old_config |-> <<>>,
     cause |-> "none", last_step |-> "none",
     measured_min |-> InfScore, measured_config |-> <<>>]

\* {n: p.current_value for n, p in self.parameters.items()}
current_config(a) ==
    [n \in DOMAIN a.parameters |-> a.parameters[n].current_value]

\* ConfigAnnealer.register_parameter
register_parameter(a, name, value) ==
    [a EXCEPT
        !.parameters = [n \in DOMAIN a.parameters \cup {name} |->
                          IF n = name
                          THEN ConfigParameter(value, ParamRange.min_value,
                                   ParamRange.max_value, FALSE, TRUE)
                          ELSE a.parameters[n]],
        !.state.best_config = [n \in DOMAIN a.state.best_config \cup {name} |->
                          IF n = name THEN value
                          ELSE a.state.best_config[n]]]

\* every dict from parameter names to values
Configs ==
    UNION {[S -> (ParamRange.min_value..ParamRange.max_value) \cup InitialValues]
              : S \in SUBSET ParamNames}

\* the configurations generate_neighbor can return: every parameter keeps
\* its current value or is perturbed
generate_neighbor(a) ==
    {c \in Configs :
        /\ DOMAIN c = DOMAIN a.parameters
        /\ \A n \in DOMAIN a.parameters :
            \/ c[n] = a.parameters[n].current_value
            \/ c[n] \in perturb(a.parameters[n])}

\* ConfigAnnealer.apply_config
apply_config(a, cfg) ==
    [a EXCEPT !.parameters =
        [n \in DOMAIN a.parameters |->
            IF n \in DOMAIN cfg
            THEN [a.parameters[n] EXCEPT !.current_value = cfg[n]]
            ELSE a.parameters[n]]]

\* mutant: run_annealing returns without applying the best configuration
run_annealing_end_unapplied(a, cause) ==
    [a EXCEPT !.pc = "returned", !.cause = cause]

\* run_annealing after the while loop: apply_config(best_config), return
run_annealing_end(a, cause) ==
    [apply_config(a, a.state.best_config) EXCEPT
        !.pc = "returned", !.cause = cause]

\* the top of the while loop of run_annealing: a termination condition
\* holds, or the for loop starts and anneal_step is about to be called
while_top(a) ==
    IF ~a._running THEN run_annealing_end(a, "stop")
    ELSE IF a.state.temperature <= AnnealerArgs.min_temperature
    THEN run_annealing_end(a, "min_temperature")
    ELSE IF a.state.iteration >= a.max_iterations
    THEN run_annealing_end(a, "max_iterations")
    ELSE IF a.state.iteration - a.state.last_improvement
            >= a.early_stop_iterations
    THEN run_annealing_end(a, "early_stop")
    ELSE [a EXCEPT !.inner = 0, !.pc = "step"]

\* mutant: the temperature is left as it is
after_step_no_cooling(a) ==
    LET a1 == [a EXCEPT !.inner = @ + 1,
                        !.new_config = <<>>, !.old_config = <<>>] IN
    IF a1.inner < AnnealerArgs.iterations_per_temp /\ a1._running
    THEN [a1 EXCEPT !.pc = "step"]
    ELSE while_top(a1)

\* mutant: _running is not looked at inside the for loop
after_step_ignores_stop(a) ==
    LET a1 == [a EXCEPT !.inner = @ + 1,
                        !.new_config = <<>>, !.old_config = <<>>] IN
    IF a1.inner < AnnealerArgs.iterations_per_temp
    THEN [a1 EXCEPT !.pc = "step"]
    ELSE while_top([a1 EXCEPT !.state.temperature =
                        (@ * AnnealerArgs.cooling_rate) \div 100])

\* anneal_step returned inside the for loop: next iteration, or the loop
\* is left, the temperature is multiplied by cooling_rate, and the while
\* loop goes on
after_step(a) ==
    LET a1 == [a EXCEPT !.inner = @ + 1,
                        !.new_config = <<>>, !.old_config = <<>>] IN
    IF a1.inner < AnnealerArgs.iterations_per_temp /\ a1._running
    THEN [a1 EXCEPT !.pc = "step"]
    ELSE while_top([a1 EXCEPT !.state.temperature =
                        (@ * AnnealerArgs.cooling_rate) \div 100])

\* mutant: a candidate is accepted only by the draw
accepted_by_draw_only(current_score, new_score, lucky) == lucky

\* random.random() < accept_probability(current_score, new_score): the
\* probability is 1.0 for a lower score and for an equal one (exp(0)), and
\* lies between 0 and 1 for a higher one, where lucky is the draw
accepted(current_score, new_score, lucky) ==
    new_score <= current_score \/ lucky

\* mutant: nothing is written back
revert_nothing(a) == a

\* anneal_step reverting: apply_config(old_config)
revert(a) == apply_config(a, a.old_config)

(* ----------------------------- HealthMonitor ---------------------------- *)
ServiceNames == {"db", "ai"}
HealthExcKinds == {"ConnectionError"}

\* latencies a check can be measured with, in ms, on each side of the
\* two thresholds
Latencies == {50, 300, 700}
healthy_threshold == 100
degraded_threshold == 500

HEALTHY == "healthy"
DEGRADED == "degraded"
UNHEALTHY == "unhealthy"
UNKNOWN == "unknown"

\* error_rate is kept in thousandths
RateScale == 1000

\* ServiceHealth(name=name); checked stands for last_check is not None
ServiceHealth ==
    [status |-> UNKNOWN, checked |-> FALSE, consecutive_failures |-> 0,
     consecutive_successes |-> 0, latency_ms |-> 0, error_rate |-> 0,
     metadata |-> "none"]

\* no task
NoTask == 0

\* the callers of stop(), each awaiting the task it cancelled or none:
\* ResilientService.shutdown is the one caller
Stoppers == {"shutdown"}

\* a task running _monitor_loop: where it is suspended, whether cancel()
\* was called on it, the check_service tasks of its current check_all, the
\* number of check_all calls it made, and where it was when it ended
LoopInit ==
    [pc |-> "created", must_cancel |-> FALSE, checks |-> <<>>,
     rounds |-> 0, ended_at |-> "none"]

HealthMonitorInit ==
    [services |-> <<>>, _running |-> FALSE, _task |-> NoTask,
     loops |-> <<>>, stop |-> [s \in Stoppers |-> NoTask]]

Alive(loop) == loop.pc \in {"created", "gather", "sleep"}

RECURSIVE SumRounds(_)
SumRounds(loops) ==
    IF loops = <<>> THEN 0
    ELSE loops[1].rounds + SumRounds(Tail(loops))

\* the check_all calls made so far by all loop tasks
TotalRounds(h) == SumRounds(h.loops)

\* mutant: a latency at or above degraded_threshold counts as a failure
check_service_returns_slow_fails(health, latency) ==
    IF latency < degraded_threshold
    THEN [health EXCEPT
            !.checked = TRUE,
            !.latency_ms = latency,
            !.consecutive_failures = 0,
            !.consecutive_successes = @ + 1,
            !.status = IF latency < healthy_threshold THEN HEALTHY
                       ELSE DEGRADED,
            !.error_rate = (@ * 9) \div 10,
            !.metadata = "result"]
    ELSE [health EXCEPT
            !.checked = TRUE,
            !.latency_ms = latency,
            !.consecutive_failures = @ + 1,
            !.consecutive_successes = 0,
            !.status = UNHEALTHY,
            !.error_rate = (@ * 9) \div 10,
            !.metadata = "result"]

\* check_service: the health check returned after latency ms
check_service_returns(health, latency) ==
    [health EXCEPT
       !.checked = TRUE,
       !.latency_ms = latency,
       !.consecutive_failures = 0,
       !.consecutive_successes = @ + 1,
       !.status = IF latency < healthy_threshold THEN HEALTHY
                  ELSE IF latency < degraded_threshold THEN DEGRADED
                  ELSE DEGRADED,
       !.error_rate = (@ * 9) \div 10,
       !.metadata = "result"]

\* mutant: a failure leaves consecutive_successes as it was
check_service_raises_keeps_successes(health, kind) ==
    [health EXCEPT
       !.checked = TRUE,
       !.consecutive_failures = @ + 1,
       !.status = UNHEALTHY,
       !.error_rate = (@ * 9) \div 10 + RateScale \div 10,
       !.metadata = kind]

\* check_service: the health check raised an exception of type kind
check_service_raises(health, kind) ==
    [health EXCEPT
       !.checked = TRUE,
       !.consecutive_failures = @ + 1,
       !.consecutive_successes = 0,
       !.status = UNHEALTHY,
       !.error_rate = (@ * 9) \div 10 + RateScale \div 10,
       !.metadata = kind]

\* the while test of _monitor_loop followed by check_all: one check_service
\* task per registered check under gather, then the interval sleep; with no
\* registered check check_all returns at once
_monitor_loop_top(h, i) ==
    IF ~h._running
    THEN [h EXCEPT !.loops[i].pc = "finished",
                   !.loops[i].ended_at = "while",
                   !.loops[i].checks = <<>>]
    ELSE IF DOMAIN h.services = {}
    THEN [h EXCEPT !.loops[i].pc = "sleep", !.loops[i].rounds = @ + 1,
                   !.loops[i].checks = <<>>]
    ELSE [h EXCEPT !.loops[i].pc = "gather", !.loops[i].rounds = @ + 1,
                   !.loops[i].checks =
                       [n \in DOMAIN h.services |-> "in_flight"]]

\* a check_service task of loop i ended: once all have, gather and
\* check_all return and the loop sleeps
check_done(h, i, name) ==
    LET h1 == [h EXCEPT !.loops[i].checks[name] = "recorded"] IN
    IF \A n \in DOMAIN h1.loops[i].checks :
          h1.loops[i].checks[n] # "in_flight"
    THEN [h1 EXCEPT !.loops[i].pc = "sleep"]
    ELSE h1

\* the CancelledError is thrown into the loop task where it is suspended:
\* under gather it is thrown into every check_service task that has not
\* ended, where `except Exception` does not catch it
cancelled(h, i) ==
    [h EXCEPT
       !.loops[i].pc = "cancelled",
       !.loops[i].ended_at = h.loops[i].pc,
       !.loops[i].checks =
           [n \in DOMAIN @ |->
               IF @[n] = "in_flight" THEN "cancelled" ELSE @[n]]]

\* stop() up to `await self._task`: s is the caller
stop_begin(h, s) ==
    LET h1 == [h EXCEPT !._running = FALSE] IN
    IF h1._task = NoTask THEN h1
    ELSE IF Alive(h1.loops[h1._task])
    THEN [h1 EXCEPT !.loops[h1._task].must_cancel = TRUE,
                    !.stop[s] = h1._task]
    ELSE [h1 EXCEPT !._task = NoTask]

(* ----------------------- HealthMonitor.get_overall_status --------------- *)
\* the services get_overall_status is applied to
OverallNames == {"db", "ai", "storage"}
StatusValues == {HEALTHY, DEGRADED, UNHEALTHY, UNKNOWN}

\* mutant: Unknown is looked for before Degraded
get_overall_status_unknown_first(services) ==
    LET statuses == {services[n].status : n \in DOMAIN services} IN
    IF DOMAIN services = {} THEN UNKNOWN
    ELSE IF UNHEALTHY \in statuses THEN UNHEALTHY
    ELSE IF UNKNOWN \in statuses THEN UNKNOWN
    ELSE IF DEGRADED \in statuses THEN DEGRADED
    ELSE HEALTHY

\* HealthMonitor.get_overall_status over self.services
get_overall_status(services) ==
    LET statuses == {services[n].status : n \in DOMAIN services} IN
    IF DOMAIN services = {} THEN UNKNOWN
    ELSE IF UNHEALTHY \in statuses THEN UNHEALTHY
    ELSE IF DEGRADED \in statuses THEN DEGRADED
    ELSE IF UNKNOWN \in statuses THEN UNKNOWN
    ELSE HEALTHY

\* get_overall_status not called
NoOverall == [services |-> <<>>, out |-> "none", pc |-> "none"]

(* --------------------------- AvatarPoolManager -------------------------- *)
AvatarIds == {"a", "b", "c"}
MaxSizes == {1, 2}

\* how _load_avatar ends: an instance, a missing directory, missing
\* required files, or liteAvatar(...) raising
LoadOutcomes == {"ok", "FileNotFoundError", "ValueError", "RuntimeError"}

\* what the last get_avatar did: its arguments, the ids cached when it was
\* called, the id evicted, the id whose instance it returned or the
\* exception it raised
NoCall ==
    [avatar_id |-> "none", fallback_to_default |-> FALSE, load |-> "none",
     cached_before |-> {}, evicted |-> "none", returned |-> "none",
     raised |-> "none"]

\* AvatarPoolManager.__init__ without preload_avatar_id; _cache is the
\* OrderedDict as the sequence of its items, oldest first; clock counts the
\* get_avatar calls and stands for time.time()
AvatarPoolInit(max_size) ==
    [max_size |-> max_size, _cache |-> <<>>,
     _stats |-> [hits |-> 0, misses |-> 0, evictions |-> 0, errors |-> 0,
                 fallbacks |-> 0],
     clock |-> 0, last |-> NoCall, preload |-> <<>>]

\* the keys of the OrderedDict
Keys(cache) == {cache[i].id : i \in 1..Len(cache)}

\* cache without the item of key id
RECURSIVE Without(_, _)
Without(cache, id) ==
    IF cache = <<>> THEN <<>>
    ELSE IF Head(cache).id = id THEN Tail(cache)
    ELSE <<Head(cache)>> \o Without(Tail(cache), id)

\* mutant: a hit updates last_access and leaves the item where it is
touch_in_place(cache, id, t) ==
    [i \in 1..Len(cache) |->
        IF cache[i].id = id THEN [cache[i] EXCEPT !.last_access = t]
        ELSE cache[i]]

\* a cache hit: the entry is popped, stamped and put back at the end
touch(cache, id, t) ==
    Append(Without(cache, id), [id |-> id, last_access |-> t])

\* mutant: eviction only when the cache is over max_size
cache_full_when_over(a) == Len(a._cache) > a.max_size

\* len(self._cache) >= self.max_size
cache_full(a) == Len(a._cache) >= a.max_size

\* AvatarPoolManager._evict_lru: the first item is deleted
_evict_lru(a) ==
    IF a._cache = <<>> THEN a
    ELSE [a EXCEPT !._cache = Tail(@), !._stats.evictions = @ + 1,
                   !.last.evicted = Head(a._cache).id]

\* AvatarPoolManager.get_avatar(avatar_id, fallback_to_default), where
\* load is how _load_avatar ends on a miss
get_avatar(a, avatar_id, fallback_to_default, load) ==
    LET t == a.clock + 1
        a0 == [a EXCEPT !.clock = t,
                        !.last = [NoCall EXCEPT
                            !.avatar_id = avatar_id,
                            !.fallback_to_default = fallback_to_default,
                            !.cached_before = Keys(a._cache)]] IN
    IF avatar_id \in Keys(a._cache)
    THEN [a0 EXCEPT !._stats.hits = @ + 1,
                    !._cache = touch(@, avatar_id, t),
                    !.last.returned = avatar_id]
    ELSE LET a1 == [a0 EXCEPT !._stats.misses = @ + 1, !.last.load = load]
             a2 == IF cache_full(a1) THEN _evict_lru(a1) ELSE a1 IN
         IF load = "ok"
         THEN [a2 EXCEPT !._cache = Append(@, [id |-> avatar_id,
                                               last_access |-> t]),
                         !.last.returned = avatar_id]
         ELSE LET a3 == [a2 EXCEPT !._stats.errors = @ + 1] IN
              IF /\ load \in {"FileNotFoundError", "ValueError"}
                 /\ fallback_to_default
                 /\ a3._cache # <<>>
              THEN [a3 EXCEPT !._stats.fallbacks = @ + 1,
                              !.last.returned = Head(a3._cache).id]
              ELSE [a3 EXCEPT !.last.raised = load]

\* AvatarPoolManager.remove_from_cache
remove_from_cache(a, avatar_id) ==
    [a EXCEPT !._cache = Without(@, avatar_id)]

\* AvatarPoolManager.clear_cache
clear_cache(a) == [a EXCEPT !._cache = <<>>]

\* the lists preload_avatars is called with
PreloadLists ==
    {<<x, y>> : x \in AvatarIds, y \in AvatarIds}
    \cup {<<x, y, z>> : x \in {"a"}, y \in {"b"}, z \in {"c"}}

\* avatar_ids[:self.max_size]
Prefix(ids, n) == SubSeq(ids, 1, IF Len(ids) < n THEN Len(ids) ELSE n)

(* ------------------- history kept beside the breaker -------------------- *)
\* fail_streak     : failed calls recorded one after the other since the
\*                   breaker was Closed with failure_count = 0 (NoStreak when
\*                   some other call outcome came between)
\* episode_admitted: calls admitted since the breaker last entered HalfOpen,
\*                   the call that made the Open -> HalfOpen step included
\* ho_streak       : successes recorded in HalfOpen since the last failure
\*                   recorded in HalfOpen (or since the breaker closed)
\* last_edge       : the last change of cb.state, <<from, to>>
\* last_by         : what made it, "call" or "reset"
\* decayed_from    : failure_count before the success recorded in Closed,
\*                   when that success is the last failure, success or
\*                   reset recorded (NoStreak otherwise)
NoStreak == 0 - 1
NoEdge == <<"none", "none">>

HistInit ==
    [fail_streak |-> 0, episode_admitted |-> 0, ho_streak |-> 0,
     last_edge |-> NoEdge, last_by |-> "none", decayed_from |-> NoStreak]

AtRest(b) == b.state = CLOSED /\ b.failure_count = 0

Edge(h, b, b2, by) ==
    IF b.state # b2.state
    THEN [h EXCEPT !.last_edge = <<b.state, b2.state>>, !.last_by = by]
    ELSE h

HistAdmit(h, b, r) ==
    LET h1 == Edge(h, b, r.cb, "call") IN
    [h1 EXCEPT
       !.fail_streak = IF r.cb.state = b.state THEN @ ELSE NoStreak,
       !.episode_admitted =
           IF r.cb.state # HALF_OPEN THEN 0
           ELSE IF b.state = OPEN THEN 1
           ELSE IF r.ok THEN @ + 1 ELSE @]

HistSuccess(h, b, b2) ==
    LET h1 == Edge(h, b, b2, "call") IN
    [h1 EXCEPT
       !.fail_streak = IF AtRest(b2) THEN 0 ELSE NoStreak,
       !.episode_admitted = IF b2.state = HALF_OPEN THEN @ ELSE 0,
       !.ho_streak = IF b.state = HALF_OPEN /\ b2.state = HALF_OPEN
                     THEN @ + 1
                     ELSE IF b.state = HALF_OPEN THEN 0 ELSE @,
       !.decayed_from = IF b.state = CLOSED THEN b.failure_count
                        ELSE NoStreak]

HistFailure(h, b, b2) ==
    LET h1 == Edge(h, b, b2, "call") IN
    [h1 EXCEPT
       !.fail_streak = IF @ = NoStreak THEN NoStreak ELSE @ + 1,
       !.episode_admitted = IF b2.state = HALF_OPEN THEN @ ELSE 0,
       !.ho_streak = IF b.state = HALF_OPEN THEN 0 ELSE @,
       !.decayed_from = NoStreak]

HistExcluded(h, b) ==
    [h EXCEPT !.fail_streak = IF AtRest(b) THEN 0 ELSE NoStreak]

HistReset(h, b, b2) ==
    LET h1 == Edge(h, b, b2, "reset") IN
    [h1 EXCEPT !.fail_streak = 0, !.episode_admitted = 0, !.ho_streak = 0,
               !.decayed_from = NoStreak]

(* ----------------------- CircuitBreaker.call ---------------------------- *)

InitCB ==
    /\ config \in CircuitBreakerConfig
    /\ cb = CircuitBreakerInit
    /\ lock = Free
    /\ pc = [t \in Tasks |-> "idle"]
    /\ result = [t \in Tasks |-> "none"]
    /\ now = 0
    /\ hist = HistInit
    /\ rm = RetryManagerInit(RetryConfigDefault)
    /\ fc = FallbackChainInit
    /\ rs = ResilientServiceInit({})
    /\ an = ConfigAnnealerInit
    /\ hm = HealthMonitorInit
    /\ pt = NoPerturb
    /\ os = NoOverall
    /\ ap = AvatarPoolInit(1)

\* call: `async with self._lock:` entered
CallBegin(t) ==
    /\ pc[t] = "idle"
    /\ lock = Free
    /\ cb.total_calls < MaxCalls
    /\ lock' = t
    /\ pc' = [pc EXCEPT ![t] = "admit"]
    /\ result' = [result EXCEPT ![t] = "none"]
    /\ UNCHANGED <<config, cb, now, hist, notCB>>

\* mutant: the wrapped function is awaited inside `async with self._lock`
CallAdmitHoldingLock(t) ==
    /\ pc[t] = "admit"
    /\ lock = t
    /\ LET r == _can_execute(cb, config, now) IN
         /\ hist' = HistAdmit(hist, cb, r)
         /\ IF r.ok
            THEN /\ cb' = [r.cb EXCEPT !.total_calls = @ + 1]
                 /\ pc' = [pc EXCEPT ![t] = "running"]
                 /\ lock' = t
                 /\ UNCHANGED result
            ELSE /\ cb' = r.cb
                 /\ pc' = [pc EXCEPT ![t] = "idle"]
                 /\ lock' = Free
                 /\ result' = [result EXCEPT ![t] = "CircuitOpenError"]
    /\ UNCHANGED <<config, now, notCB>>

\* call: the admission check under the lock, the lock released, then
\* either CircuitOpenError or total_calls += 1 and func started
CallAdmit(t) ==
    /\ pc[t] = "admit"
    /\ lock = t
    /\ LET r == _can_execute(cb, config, now) IN
         /\ hist' = HistAdmit(hist, cb, r)
         /\ IF r.ok
            THEN /\ cb' = [r.cb EXCEPT !.total_calls = @ + 1]
                 /\ pc' = [pc EXCEPT ![t] = "running"]
                 /\ UNCHANGED result
            ELSE /\ cb' = r.cb
                 /\ pc' = [pc EXCEPT ![t] = "idle"]
                 /\ result' = [result EXCEPT ![t] = "CircuitOpenError"]
    /\ lock' = Free
    /\ UNCHANGED <<config, now, notCB>>

\* func returns; _on_success enters `async with self._lock:`
FuncReturns(t) ==
    /\ pc[t] = "running"
    /\ lock = Free
    /\ lock' = t
    /\ pc' = [pc EXCEPT ![t] = "on_success"]
    /\ UNCHANGED <<config, cb, result, now, hist, notCB>>

\* func raises e: an excluded exception is re-raised at once, any other
\* Exception enters _on_failure's `async with self._lock:`
FuncRaises(t, e) ==
    /\ pc[t] = "running"
    /\ IF ExceptClause(e, config) = "reraise"
       THEN /\ pc' = [pc EXCEPT ![t] = "idle"]
            /\ hist' = HistExcluded(hist, cb)
            /\ UNCHANGED lock
       ELSE /\ lock = Free
            /\ lock' = t
            /\ pc' = [pc EXCEPT ![t] = "on_failure"]
            /\ UNCHANGED hist
    /\ result' = [result EXCEPT ![t] = e]
    /\ UNCHANGED <<config, cb, now, notCB>>

\* _on_success under the lock; call returns the result
OnSuccess(t) ==
    /\ pc[t] = "on_success"
    /\ lock = t
    /\ cb' = _on_success(cb, config, now)
    /\ hist' = HistSuccess(hist, cb, cb')
    /\ lock' = Free
    /\ pc' = [pc EXCEPT ![t] = "idle"]
    /\ result' = [result EXCEPT ![t] = "ok"]
    /\ UNCHANGED <<config, now, notCB>>

\* _on_failure under the lock; call re-raises the exception
OnFailure(t) ==
    /\ pc[t] = "on_failure"
    /\ lock = t
    /\ cb' = _on_failure(cb, config, now)
    /\ hist' = HistFailure(hist, cb, cb')
    /\ lock' = Free
    /\ pc' = [pc EXCEPT ![t] = "idle"]
    /\ UNCHANGED <<config, result, now, notCB>>

\* reset() is synchronous: it runs between the steps of the tasks
Reset ==
    /\ lock = Free
    /\ cb' = reset(cb, now)
    /\ cb' # cb
    /\ hist' = HistReset(hist, cb, cb')
    /\ UNCHANGED <<config, lock, pc, result, now, notCB>>

\* the wall clock advances
Tick ==
    /\ now < MaxTime
    /\ now' = now + 1
    /\ UNCHANGED <<config, cb, lock, pc, result, hist, notCB>>

NextCB ==
    \/ \E t \in Tasks : CallBegin(t)
    \/ \E t \in Tasks : CallAdmit(t)
    \/ \E t \in Tasks : FuncReturns(t)
    \/ \E t \in Tasks, e \in ExcKinds : FuncRaises(t, e)
    \/ \E t \in Tasks : OnSuccess(t)
    \/ \E t \in Tasks : OnFailure(t)
    \/ Reset
    \/ Tick

SpecCB == InitCB /\ [][NextCB]_vars


(* ------------------- properties of the CircuitBreaker ------------------- *)

\* the step in which task t leaves the admission block
AdmitStep(t) == pc[t] = "admit" /\ pc'[t] # "admit"
\* ... rejected: CircuitOpenError raised, func not invoked
Rejected(t) ==
    /\ pc'[t] = "idle"
    /\ result'[t] = "CircuitOpenError"
    /\ cb'.total_calls = cb.total_calls
\* ... admitted: func invoked
Admitted(t) == pc'[t] = "running" /\ cb'.total_calls = cb.total_calls + 1
\* the steps in which task t's success / failure is recorded
SuccessStep(t) == pc[t] = "on_success" /\ pc'[t] = "idle"
FailureStep(t) == pc[t] = "on_failure" /\ pc'[t] = "idle"

\* C1: after failure_threshold failed calls in a row, counted from a Closed
\* breaker with failure_count = 0, the breaker is Open, and a call made
\* before timeout_seconds have elapsed raises CircuitOpenError without
\* invoking the wrapped function.
C1_OpenAfterThreshold ==
    /\ [](hist.fail_streak >= config.failure_threshold => cb.state = OPEN)
    /\ [][\A t \in Tasks :
            (/\ AdmitStep(t)
             /\ hist.fail_streak >= config.failure_threshold
             /\ now - cb.last_failure_time < config.timeout_seconds)
            => Rejected(t)]_vars

C1_Witness ==
    /\ config.failure_threshold = 2
    /\ hist.fail_streak = 2
    /\ cb.total_calls = 2
    /\ cb.state = OPEN
    /\ \E t \in Tasks : pc[t] = "idle" /\ result[t] = "CircuitOpenError"

\* C2 (as claimed): during one HalfOpen episode at most half_open_max_calls
\* calls are admitted, the call that made the Open -> HalfOpen step included.
C2_HalfOpenAdmissions ==
    cb.state = HALF_OPEN => hist.episode_admitted <= config.half_open_max_calls

\* C3: an Open breaker rejects every call made less than timeout_seconds
\* after last_failure_time and stays Open; a call made once timeout_seconds
\* have elapsed is admitted, moves the breaker to HalfOpen and invokes func.
C3_OpenTimeout ==
    /\ [](cb.state = OPEN => cb.last_failure_time # NoTime)
    /\ [][\A t \in Tasks :
            (AdmitStep(t) /\ cb.state = OPEN)
            => IF now - cb.last_failure_time < config.timeout_seconds
               THEN Rejected(t) /\ cb'.state = OPEN
               ELSE Admitted(t) /\ cb'.state = HALF_OPEN]_vars

C3_Witness ==
    /\ cb.state = HALF_OPEN
    /\ hist.last_edge = <<OPEN, HALF_OPEN>>
    /\ now - cb.last_failure_time = config.timeout_seconds
    /\ \E t, u \in Tasks :
          /\ pc[t] = "running"
          /\ pc[u] = "idle" /\ result[u] = "CircuitOpenError"

\* C4: a failure recorded while the breaker is HalfOpen leaves it Open,
\* whatever success_threshold and success_count are.
C4_HalfOpenFailureOpens ==
    [][\A t \in Tasks :
         (FailureStep(t) /\ cb.state = HALF_OPEN) => cb'.state = OPEN]_vars

C4_Witness ==
    /\ cb.state = OPEN
    /\ hist.last_edge = <<HALF_OPEN, OPEN>>
    /\ cb.success_count > 0
    /\ cb.success_count < config.success_threshold

\* C5 (as claimed): the breaker closes from HalfOpen only when the last
\* success_threshold outcomes recorded in HalfOpen were all successes.
C5_ClosesOnConsecutiveSuccesses ==
    [][\A t \in Tasks :
         (SuccessStep(t) /\ cb.state = HALF_OPEN /\ cb'.state = CLOSED)
         => hist.ho_streak + 1 >= config.success_threshold]_vars

\* C6: the success that completes success_threshold successes in a row in
\* HalfOpen closes the breaker with failure_count = 0 and success_count = 0.
C6_ThresholdSuccessesClose ==
    [][\A t \in Tasks :
         (/\ SuccessStep(t)
          /\ cb.state = HALF_OPEN
          /\ hist.ho_streak + 1 >= config.success_threshold)
         => (/\ cb'.state = CLOSED
             /\ cb'.failure_count = 0
             /\ cb'.success_count = 0)]_vars

C6_Witness ==
    /\ config.success_threshold = 2
    /\ cb.total_calls = 3
    /\ cb.total_failures = 1
    /\ cb.state = CLOSED
    /\ cb.failure_count = 0
    /\ hist.last_edge = <<HALF_OPEN, CLOSED>>
    /\ hist.last_by = "call"

\* C7: the steps of call() change the state only along Closed -> Open,
\* Open -> HalfOpen, HalfOpen -> Open and HalfOpen -> Closed.
CallEdges ==
    {<<CLOSED, OPEN>>, <<OPEN, HALF_OPEN>>, <<HALF_OPEN, OPEN>>,
     <<HALF_OPEN, CLOSED>>}

C7_OnlyDefinedEdges ==
    [][(pc' # pc /\ cb'.state # cb.state)
       => <<cb.state, cb'.state>> \in CallEdges]_vars

\* a success about to be recorded after the breaker has opened
C7_Witness ==
    /\ cb.state = OPEN
    /\ hist.last_edge = <<HALF_OPEN, OPEN>>
    /\ \E t \in Tasks : pc[t] = "on_success" /\ lock = t

\* C8: the lock is held only inside the admission block and the bookkeeping
\* blocks, never while func runs; the holder can always go on and release
\* it; a call to a Closed breaker is admitted whatever other calls are
\* running.
InLockedBlock(t) == pc[t] \in {"admit", "on_success", "on_failure"}

C8_LockOnlyAroundBookkeeping ==
    /\ [](\A t \in Tasks : (lock = t) <=> InLockedBlock(t))
    /\ [](\A t \in Tasks :
            lock = t => ENABLED (CallAdmit(t) \/ OnSuccess(t) \/ OnFailure(t)))
    /\ [](\A t \in Tasks :
            (lock = Free /\ pc[t] = "running") => ENABLED FuncReturns(t))
    /\ [][\A t \in Tasks :
            (AdmitStep(t) /\ cb.state = CLOSED) => Admitted(t)]_vars

C8_Witness ==
    /\ cb.state = CLOSED
    /\ lock = Free
    /\ \A t \in Tasks : pc[t] = "running"

\* C9: when func raises an excluded exception the call ends at once with
\* that exception and failure_count, total_failures, last_failure_time,
\* success_count and state are unchanged.
C9_ExcludedNotCounted ==
    [][\A t \in Tasks :
         (pc[t] = "running" /\ pc'[t] # "running"
            /\ result'[t] \in config.excluded_exceptions)
         => (/\ pc'[t] = "idle"
             /\ cb'.failure_count = cb.failure_count
             /\ cb'.total_failures = cb.total_failures
             /\ cb'.last_failure_time = cb.last_failure_time
             /\ cb'.success_count = cb.success_count
             /\ cb'.state = cb.state)]_vars

C9_Witness ==
    /\ cb.state = HALF_OPEN
    /\ cb.total_calls = 2
    /\ cb.total_failures = 1
    /\ \E t \in Tasks :
          pc[t] = "idle" /\ result[t] \in config.excluded_exceptions


(* ------------------------- RetryManager.execute ------------------------- *)

\* CircuitBreakerConfig's defaults
CircuitBreakerConfigDefault ==
    [failure_threshold |-> 5, success_threshold |-> 3, timeout_seconds |-> 30,
     half_open_max_calls |-> 3, excluded_exceptions |-> {}]

InitRM ==
    /\ rm \in {RetryManagerInit(c) : c \in RetryConfigs}
    /\ config = CircuitBreakerConfigDefault
    /\ cb = CircuitBreakerInit
    /\ lock = Free
    /\ pc = [t \in Tasks |-> "idle"]
    /\ result = [t \in Tasks |-> "none"]
    /\ now = 0
    /\ hist = HistInit
    /\ fc = FallbackChainInit
    /\ rs = ResilientServiceInit({})
    /\ an = ConfigAnnealerInit
    /\ hm = HealthMonitorInit
    /\ pt = NoPerturb
    /\ os = NoOverall
    /\ ap = AvatarPoolInit(1)

\* execute entered: last_exception = None, then the for loop; with
\* max_attempts = 0 the loop body never runs
RMExecute ==
    /\ rm.pc = "idle"
    /\ rm' = IF rm.config.max_attempts > 0
             THEN [rm EXCEPT !.pc = "attempt", !.attempt = 0]
             ELSE [rm EXCEPT !.pc = "raised",
                             !.raised = RetryExhaustedError(
                                 rm.config, rm.attempt, rm.last_exception)]
    /\ UNCHANGED notRM

\* func returns: the result is returned
RMFuncReturns ==
    /\ rm.pc = "attempt"
    /\ rm' = [rm EXCEPT
                !.outcomes = Append(@, [kind |-> "ok", n |-> Len(@) + 1]),
                !.successful_retries = IF rm.attempt > 0 THEN @ + 1 ELSE @,
                !.pc = "returned"]
    /\ UNCHANGED notRM

\* func raises an exception of class k
RMFuncRaises(k, rnd) ==
    /\ rm.pc = "attempt"
    /\ LET e == [kind |-> k, n |-> Len(rm.outcomes) + 1]
           r1 == [rm EXCEPT !.outcomes = Append(@, e)] IN
       IF RetryExceptClause(k, rm.config) # "retryable"
       THEN rm' = [r1 EXCEPT !.pc = "raised", !.raised = e]
       ELSE LET r2 == [r1 EXCEPT !.last_exception = e,
                                 !.total_retries = @ + 1] IN
            IF rm.attempt < rm.config.max_attempts - 1
            THEN rm' = [r2 EXCEPT
                          !.sleeps = Append(@, calculate_delay(
                                         rm.config, rm.attempt, rnd)),
                          !.pc = "sleeping"]
            ELSE rm' = [r2 EXCEPT
                          !.pc = "raised",
                          !.raised = RetryExhaustedError(
                              r2.config, r2.attempt, r2.last_exception)]
    /\ UNCHANGED notRM

\* asyncio.sleep(delay) is over: the next iteration of the loop
RMWake ==
    /\ rm.pc = "sleeping"
    /\ rm' = [rm EXCEPT !.attempt = @ + 1, !.pc = "attempt"]
    /\ UNCHANGED notRM

NextRM ==
    \/ RMExecute
    \/ RMFuncReturns
    \/ \E k \in RetryExcKinds, rnd \in RandomSamples : RMFuncRaises(k, rnd)
    \/ RMWake

SpecRM == InitRM /\ [][NextRM]_vars

(* -------------------- properties of the RetryManager -------------------- *)

\* every invocation so far raised an exception the retryable clause catches
AlwaysRetryableFailure ==
    \A i \in 1..Len(rm.outcomes) :
        RetryExceptClause(rm.outcomes[i].kind, rm.config) = "retryable"

\* C10: with max_attempts = N >= 1 and a function that always raises a
\* retryable exception, execute invokes it exactly N times, never more, and
\* raises RetryExhaustedError with attempts = N and last_error the exception
\* of the N-th invocation.
C10_ExhaustedAfterMaxAttempts ==
    (rm.config.max_attempts >= 1 /\ AlwaysRetryableFailure)
    => /\ Len(rm.outcomes) <= rm.config.max_attempts
       /\ rm.pc = "raised" =>
            /\ Len(rm.outcomes) = rm.config.max_attempts
            /\ rm.raised = [kind |-> "RetryExhaustedError",
                            attempts |-> rm.config.max_attempts,
                            last_error |->
                                rm.outcomes[rm.config.max_attempts]]

C10_Witness ==
    /\ rm.pc = "raised"
    /\ rm.config.max_attempts = 3
    /\ AlwaysRetryableFailure
    /\ Len(rm.outcomes) = 3
    /\ rm.outcomes[2].kind # rm.outcomes[3].kind
    /\ rm.raised.kind = "RetryExhaustedError"

\* C11: an invocation that raises an exception matching
\* non_retryable_exceptions is the last one: execute raises that very
\* exception at once, with no sleep after it, also when the class matches
\* retryable_exceptions too; raised by the first invocation, the function
\* has been invoked exactly once and nothing was slept.
C11_NonRetryableRaisedAtOnce ==
    \A i \in 1..Len(rm.outcomes) :
        rm.outcomes[i].kind \in rm.config.non_retryable_exceptions
        => /\ i = Len(rm.outcomes)
           /\ rm.pc = "raised"
           /\ rm.raised = rm.outcomes[i]
           /\ Len(rm.sleeps) = i - 1

C11_Witness ==
    /\ rm.pc = "raised"
    /\ rm.config.max_attempts = 3
    /\ Len(rm.outcomes) = 1
    /\ rm.outcomes[1].kind \in rm.config.non_retryable_exceptions
    /\ rm.outcomes[1].kind \in rm.config.retryable_exceptions
    /\ rm.raised = rm.outcomes[1]
    /\ rm.sleeps = <<>>

\* C12: with jitter disabled, the i-th sleep (i = 0..) lasts
\* min(base_delay * exponential_base^i, max_delay); a run that succeeds
\* after k retryable failures has made k+1 invocations and k sleeps, and no
\* sleep follows the final attempt, whether it succeeds or fails.
C12_BackoffSchedule ==
    ~rm.config.jitter
    => /\ \A i \in 1..Len(rm.sleeps) :
             rm.sleeps[i] =
                 100 * Min(rm.config.base_delay
                               * Pow(rm.config.exponential_base, i - 1),
                           rm.config.max_delay)
       /\ (rm.pc \in {"returned", "raised"} /\ Len(rm.outcomes) > 0)
             => Len(rm.sleeps) = Len(rm.outcomes) - 1
       /\ (Len(rm.outcomes) > 0
              /\ rm.outcomes[Len(rm.outcomes)].kind = "ok")
             => rm.pc = "returned"

C12_Witness ==
    /\ rm.pc = "returned"
    /\ ~rm.config.jitter
    /\ Len(rm.outcomes) = 3
    /\ rm.outcomes[3].kind = "ok"
    /\ rm.sleeps = <<200, 300>>

(* ------------------------ FallbackChain.execute ------------------------- *)

\* CircuitBreaker and RetryManager as constructed
InitFC ==
    /\ fc = FallbackChainInit
    /\ rs = ResilientServiceInit({})
    /\ an = ConfigAnnealerInit
    /\ hm = HealthMonitorInit
    /\ pt = NoPerturb
    /\ os = NoOverall
    /\ ap = AvatarPoolInit(1)
    /\ config = CircuitBreakerConfigDefault
    /\ cb = CircuitBreakerInit
    /\ lock = Free
    /\ pc = [t \in Tasks |-> "idle"]
    /\ result = [t \in Tasks |-> "none"]
    /\ now = 0
    /\ hist = HistInit
    /\ rm = RetryManagerInit(RetryConfigDefault)

\* add_fallback is synchronous: it runs before execute, between two
\* executes, or while an execute is suspended in an option
FCAddFallback(priority, name) ==
    /\ Len(fc.fallbacks) < MaxFallbacks
    /\ fc' = [fc EXCEPT
                !.fallbacks = add_fallback(@, priority, name),
                !.run.changed = @ \/ fc.pc # "idle"]
    /\ UNCHANGED notFC

\* execute entered: total_calls += 1, errors = [], primary invoked
FCExecute ==
    /\ fc.pc = "idle"
    /\ fc.total_calls < MaxExecutes
    /\ fc' = execute_begin(fc)
    /\ UNCHANGED notFC

\* primary returns
FCPrimaryReturns ==
    /\ fc.pc = "primary"
    /\ fc' = [fc EXCEPT !.current_provider = "primary",
                        !.pc = "idle",
                        !.run.outcome = "returned",
                        !.run.by = PrimaryId]
    /\ UNCHANGED notFC

\* primary raises: the error is kept and the for loop starts
FCPrimaryRaises ==
    /\ fc.pc = "primary"
    /\ fc' = NextOption(
                [fc EXCEPT !.errors = Append(@, [name |-> "primary",
                                                 exc |-> PrimaryId])], 1)
    /\ UNCHANGED notFC

\* the fallback of this iteration returns
FCFallbackReturns ==
    /\ fc.pc = "fallback"
    /\ fc' = [on_fallback_success(fc) EXCEPT
                !.pc = "idle",
                !.run.outcome = "returned",
                !.run.by = fc.cur.id]
    /\ UNCHANGED notFC

\* the fallback of this iteration raises: the error is kept, next iteration
FCFallbackRaises ==
    /\ fc.pc = "fallback"
    /\ fc' = NextOption(
                [fc EXCEPT !.errors = Append(@, [name |-> fc.cur.name,
                                                 exc |-> fc.cur.id])],
                fc.idx + 1)
    /\ UNCHANGED notFC

NextFC ==
    \/ \E p \in Priorities, n \in FallbackNames : FCAddFallback(p, n)
    \/ FCExecute
    \/ FCPrimaryReturns
    \/ FCPrimaryRaises
    \/ FCFallbackReturns
    \/ FCFallbackRaises

SpecFC == InitFC /\ [][NextFC]_vars

(* ------------------- properties of FallbackChain.execute ---------------- *)

\* the options of the chain the execute at hand began with
OptionIds == 0..Len(fc.run.chain)
OptionOf(id) == CHOOSE f \in {fc.run.chain[i] : i \in 1..Len(fc.run.chain)} : f.id = id
LabelOf(id) == IF id = PrimaryId THEN "primary" ELSE OptionOf(id).name
\* the primary comes before every fallback
RankOf(id) == IF id = PrimaryId THEN 0 - 1 ELSE OptionOf(id).priority
\* add_fallback did not run while this execute was suspended
ChainKept == ~fc.run.changed

\* C13: when execute returns, the option that returned is the last one
\* invoked, every option invoked before it raised, every option ranked
\* strictly before it (the primary, the fallbacks of lower priority) was
\* invoked, current_provider is that option's label, and fallback_calls grew
\* by 1 for a fallback and by 0 for the primary.
C13_FirstSuccessReturned ==
    (fc.run.outcome = "returned" /\ ChainKept)
    => LET inv == fc.run.invoked
           n == Len(inv)
       IN /\ n >= 1
          /\ fc.run.by = inv[n]
          /\ Len(fc.errors) = n - 1
          /\ \A i \in 1..(n - 1) : fc.errors[i].exc = inv[i]
          /\ \A id \in OptionIds :
                RankOf(id) < RankOf(fc.run.by)
                => \E i \in 1..(n - 1) : inv[i] = id
          /\ \A i \in 1..(n - 1) : RankOf(inv[i]) <= RankOf(fc.run.by)
          /\ fc.current_provider = LabelOf(fc.run.by)
          /\ fc.fallback_calls = fc.run.fallback_before
                                 + (IF fc.run.by = PrimaryId THEN 0 ELSE 1)

\* primary fails; fallbacks added at priority 1 and then at priority 0; the
\* one of priority 0 returns and the one of priority 1 is never invoked
C13_Witness ==
    /\ fc.run.outcome = "returned"
    /\ ChainKept
    /\ Len(fc.run.chain) = 2
    /\ fc.run.chain[1].priority = 0
    /\ fc.run.chain[2].priority = 1
    /\ fc.run.chain[1].id = 2
    /\ fc.run.invoked = <<PrimaryId, 2>>
    /\ fc.current_provider = fc.run.chain[1].name
    /\ fc.fallback_calls = fc.run.fallback_before + 1

\* C14: whatever the order of the add_fallback calls, an execute invokes the
\* primary first, then fallbacks in non-decreasing priority, in the order of
\* the sorted list, and no option twice.
C14_PrimaryThenAscending ==
    ChainKept
    => LET inv == fc.run.invoked
       IN /\ fc.pc # "idle" => Len(inv) >= 1
          /\ Len(inv) >= 1 => inv[1] = PrimaryId
          /\ \A i \in 2..Len(inv) : inv[i] = fc.run.chain[i - 1].id
          /\ \A i, j \in 1..Len(inv) : i < j => RankOf(inv[i]) <= RankOf(inv[j])
          /\ \A i, j \in 1..Len(inv) : i # j => inv[i] # inv[j]

\* fallbacks added at priorities 2, 0, 1 in that order, and all options fail
C14_Witness ==
    /\ ChainKept
    /\ Len(fc.run.chain) = 3
    /\ fc.run.invoked = <<PrimaryId, 2, 3, 1>>
    /\ RankOf(1) = 2 /\ RankOf(2) = 0 /\ RankOf(3) = 1

\* C15: when execute raises because every option raised, each option was
\* invoked exactly once, the error raised lists (name, exception) of every
\* option in attempt order, current_provider and fallback_calls are as
\* before the call and total_calls is one more.
C15_AllFailAggregate ==
    (fc.run.outcome = "raised" /\ ChainKept)
    => LET inv == fc.run.invoked
       IN /\ Len(inv) = Len(fc.run.chain) + 1
          /\ \A id \in OptionIds :
                Cardinality({i \in 1..Len(inv) : inv[i] = id}) = 1
          /\ Len(fc.run.raised) = Len(inv)
          /\ \A i \in 1..Len(inv) :
                /\ fc.run.raised[i].name = LabelOf(inv[i])
                /\ fc.run.raised[i].exc = inv[i]
          /\ fc.current_provider = fc.run.provider_before
          /\ fc.fallback_calls = fc.run.fallback_before
          /\ fc.total_calls = fc.run.total_before + 1

\* a second execute over two fallbacks fails throughout, after a first one
\* that a fallback had served
C15_Witness ==
    /\ fc.run.outcome = "raised"
    /\ ChainKept
    /\ Len(fc.run.chain) = 2
    /\ Len(fc.run.raised) = 3
    /\ fc.run.provider_before # "primary"
    /\ fc.current_provider = fc.run.provider_before
    /\ fc.run.fallback_before = 1
    /\ fc.fallback_calls = 1
    /\ fc.total_calls = 2

(* ------------------- ResilientService.call_dependency ------------------- *)

\* circuit_config and retry_config given to register_dependency
RSBreakerConfigs ==
    {c \in CircuitBreakerConfig :
        c.success_threshold = 1 /\ c.half_open_max_calls = 1}
RSRetryConfigs ==
    {c \in RetryConfigs :
        /\ c.base_delay = 1 /\ c.max_delay = 60 /\ ~c.jitter
        /\ c.retryable_exceptions = RetryExcKinds}

\* exception classes func raises here: one retried, and one that either
\* policy may be configured to let through
RSExcKinds == {"TimeoutError", "ValueError"}

\* register_fallback at startup: no chain, or a primary and one fallback
RSChains ==
    {<<{}, FallbackChainInit>>,
     <<{Dep}, [FallbackChainInit EXCEPT
                 !.fallbacks = add_fallback(<<>>, 0, "fallback")]>>}

\* register_dependency and register_fallback done; one caller at a time
InitRS ==
    /\ config \in RSBreakerConfigs
    /\ cb = CircuitBreakerInit
    /\ lock = Free
    /\ pc = [t \in Tasks |-> "idle"]
    /\ result = [t \in Tasks |-> "none"]
    /\ now = 0
    /\ hist = HistInit
    /\ rm \in {RetryManagerInit(c) : c \in RSRetryConfigs}
    /\ \E ch \in RSChains :
          /\ rs = ResilientServiceInit(ch[1])
          /\ fc = ch[2]
    /\ an = ConfigAnnealerInit
    /\ hm = HealthMonitorInit
    /\ pt = NoPerturb
    /\ os = NoOverall
    /\ ap = AvatarPoolInit(1)

\* the breaker is Open and its timeout has not elapsed
OpenNotElapsed(b, cfg, t) ==
    /\ b.state = OPEN
    /\ b.last_failure_time # NoTime
    /\ t - b.last_failure_time < cfg.timeout_seconds

\* call_dependency entered: _request_count += 1, then CircuitBreaker.call
\* of the retry-wrapped execute: rejected, or admitted and
\* RetryManager.execute about to start
RSCallDependency ==
    /\ rs.pc = "idle"
    /\ rs._request_count < MaxRequests
    /\ LET r == _can_execute(cb, config, now)
           r0 == [rs EXCEPT
                    !._request_count = @ + 1,
                    !.call = [CallInit EXCEPT
                        !.open_at_entry = OpenNotElapsed(cb, config, now),
                        !.admitted = r.ok,
                        !.cb_before = cb,
                        !.retries_before = rm.total_retries,
                        !.fc_calls_before = fc.total_calls,
                        !.errors_before = rs._error_count]] IN
       IF r.ok
       THEN /\ cb' = [r.cb EXCEPT !.total_calls = @ + 1]
            /\ rs' = [r0 EXCEPT !.pc = "retry"]
            /\ rm' = rm
            /\ fc' = fc
       ELSE /\ cb' = r.cb
            /\ rs' = call_dependency_except(r0, CircuitOpenError(r.wait))
            /\ rm' = rm
            /\ fc' = IF rs'.pc = "fallback" THEN execute_begin(fc) ELSE fc
    /\ UNCHANGED <<config, lock, pc, result, now, hist, an, hm, pt, os, ap>>

\* RetryManager.execute inside the breaker call
RSRetryExecute == rs.pc = "retry" /\ RMExecute
RSFuncReturns == rs.pc = "retry" /\ RMFuncReturns
RSFuncRaises(k, rnd) == rs.pc = "retry" /\ RMFuncRaises(k, rnd)
RSWake == rs.pc = "retry" /\ RMWake

\* RetryManager.execute returned: CircuitBreaker._on_success, and
\* call_dependency returns the result
RSBreakerSuccess ==
    /\ rs.pc = "retry"
    /\ rm.pc = "returned"
    /\ cb' = _on_success(cb, config, now)
    /\ rs' = [rs EXCEPT !.pc = "idle", !.call.outcome = "result",
                        !.call.invocations = Len(rm.outcomes),
                        !.call.sleeps = Len(rm.sleeps)]
    /\ rm' = execute_end(rm)
    /\ UNCHANGED <<config, lock, pc, result, now, hist, fc, an, hm, pt, os, ap>>

\* _on_failure once for every invocation of func that raised
RECURSIVE _on_failure_times(_, _, _, _)
_on_failure_times(b, cfg, t, n) ==
    IF n = 0 THEN b ELSE _on_failure_times(_on_failure(b, cfg, t), cfg, t, n - 1)

\* mutant: the breaker is wrapped inside the retry loop and counts every
\* failed attempt
RSBreakerFailurePerAttempt ==
    /\ rs.pc = "retry"
    /\ rm.pc = "raised"
    /\ cb' = IF ExceptClause(rm.raised.kind, config) = "reraise"
             THEN cb
             ELSE _on_failure_times(cb, config, now, Len(rm.outcomes))
    /\ rs' = call_dependency_except(
                [rs EXCEPT !.call.invocations = Len(rm.outcomes),
                           !.call.sleeps = Len(rm.sleeps)], rm.raised)
    /\ rm' = execute_end(rm)
    /\ fc' = IF rs'.pc = "fallback" THEN execute_begin(fc) ELSE fc
    /\ UNCHANGED <<config, lock, pc, result, now, hist, an, hm, pt, os, ap>>

\* RetryManager.execute raised: the except clauses of CircuitBreaker.call,
\* then those of call_dependency
RSBreakerFailure ==
    /\ rs.pc = "retry"
    /\ rm.pc = "raised"
    /\ cb' = IF ExceptClause(rm.raised.kind, config) = "reraise"
             THEN cb
             ELSE _on_failure(cb, config, now)
    /\ rs' = call_dependency_except(
                [rs EXCEPT !.call.invocations = Len(rm.outcomes),
                           !.call.sleeps = Len(rm.sleeps)], rm.raised)
    /\ rm' = execute_end(rm)
    /\ fc' = IF rs'.pc = "fallback" THEN execute_begin(fc) ELSE fc
    /\ UNCHANGED <<config, lock, pc, result, now, hist, an, hm, pt, os, ap>>

\* FallbackRegistry.call: the chain's execute
RSPrimaryReturns == rs.pc = "fallback" /\ FCPrimaryReturns
RSPrimaryRaises == rs.pc = "fallback" /\ FCPrimaryRaises
RSFallbackReturns == rs.pc = "fallback" /\ FCFallbackReturns
RSFallbackRaises == rs.pc = "fallback" /\ FCFallbackRaises

\* the chain's execute is over: call_dependency returns its result or
\* lets its error through
RSFallbackDone ==
    /\ rs.pc = "fallback"
    /\ fc.pc = "idle"
    /\ rs' = [rs EXCEPT
                !.pc = "idle",
                !.call.outcome = IF fc.run.outcome = "returned"
                                 THEN "chain_result" ELSE "chain_raise",
                !.call.chain_by = fc.run.by,
                !.call.chain_errors = fc.run.raised]
    /\ UNCHANGED <<cbVars, rm, fc, an, hm, pt, os, ap>>

NextRS ==
    \/ RSCallDependency
    \/ RSRetryExecute
    \/ RSFuncReturns
    \/ \E k \in RSExcKinds, rnd \in RandomSamples : RSFuncRaises(k, rnd)
    \/ RSWake
    \/ RSBreakerSuccess
    \/ RSBreakerFailure
    \/ RSPrimaryReturns
    \/ RSPrimaryRaises
    \/ RSFallbackReturns
    \/ RSFallbackRaises
    \/ RSFallbackDone
    \/ Tick

SpecRS == InitRS /\ [][NextRS]_vars

(* ---------------------- properties of call_dependency ------------------- *)

\* the composed call of the call_dependency at hand is over
ComposedOver == rs.pc # "retry" /\ rs._request_count > 0

\* C16: one call_dependency makes one breaker call around the whole retry
\* sequence: the breaker's total_calls grows by 1 if the call was admitted
\* and by 0 if not, total_failures by at most 1, and when the retry manager
\* gave up after max_attempts invocations failure_count and total_failures
\* are each exactly one more than before the call.
C16_OneBreakerCallPerRequest ==
    /\ cb.total_calls = rs.call.cb_before.total_calls
                        + (IF rs.call.admitted THEN 1 ELSE 0)
    /\ cb.total_failures \in {rs.call.cb_before.total_failures,
                              rs.call.cb_before.total_failures + 1}
    /\ (ComposedOver /\ rs.call.exc.kind = "RetryExhaustedError")
       => /\ rs.call.invocations = rm.config.max_attempts
          /\ rs.call.exc.attempts = rm.config.max_attempts
          /\ cb.total_calls = rs.call.cb_before.total_calls + 1
          /\ cb.failure_count = rs.call.cb_before.failure_count + 1
          /\ cb.total_failures = rs.call.cb_before.total_failures + 1

\* a second request whose three attempts all fail, after a first one that
\* failed too: two failures counted for six invocations
C16_Witness ==
    /\ rs.pc = "idle"
    /\ rs._request_count = 2
    /\ rs.call.exc.kind = "RetryExhaustedError"
    /\ rs.call.invocations = 3
    /\ rs.call.sleeps = 2
    /\ rs.call.cb_before.failure_count = 1
    /\ cb.failure_count = 2
    /\ cb.total_failures = 2
    /\ cb.total_calls = 2

\* C17: when the composed call raised, call_dependency with a chain
\* registered ends with the chain's result or the chain's exhaustion error,
\* after exactly one execute of the chain; with no chain registered the
\* exception of the composed call reaches the caller as it is and no chain
\* runs. When the composed call returned, its result is returned.
C17_FallbackOrPropagate ==
    /\ rs.pc = "fallback" => (rs.call.exc # NoException /\ Dep \in rs.chains)
    /\ (rs.pc = "idle" /\ rs.call.outcome # "none")
       => IF rs.call.exc = NoException
          THEN /\ rs.call.outcome = "result"
               /\ fc.total_calls = rs.call.fc_calls_before
          ELSE IF Dep \in rs.chains
          THEN /\ fc.total_calls = rs.call.fc_calls_before + 1
               /\ fc.pc = "idle"
               /\ \/ /\ rs.call.outcome = "chain_result"
                     /\ fc.run.outcome = "returned"
                     /\ rs.call.chain_by = fc.run.by
                  \/ /\ rs.call.outcome = "chain_raise"
                     /\ fc.run.outcome = "raised"
                     /\ rs.call.chain_errors = fc.run.raised
          ELSE /\ rs.call.outcome = "raise"
               /\ rs.call.raised = rs.call.exc
               /\ rs.call.raised.kind \in
                    IF rs.call.admitted
                    THEN RSExcKinds \cup {"RetryExhaustedError"}
                    ELSE {"CircuitOpenError"}
               /\ fc.total_calls = rs.call.fc_calls_before

\* the retries are exhausted, the chain is entered and its primary and its
\* fallback fail as well
C17_Witness ==
    /\ rs.pc = "idle"
    /\ Dep \in rs.chains
    /\ rs.call.exc.kind = "RetryExhaustedError"
    /\ rs.call.outcome = "chain_raise"
    /\ Len(rs.call.chain_errors) = 2

\* C18: a call_dependency that finds the breaker Open with its timeout not
\* elapsed is not admitted: func is not invoked, the retry manager does not
\* run, attempt or sleep, the breaker's total_calls is as before, and the
\* call raises CircuitOpenError or is in, or through, the fallback chain.
C18_OpenSkipsFuncAndRetry ==
    rs.call.open_at_entry
    => /\ ~rs.call.admitted
       /\ rs.pc # "retry"
       /\ rs.call.invocations = 0
       /\ rs.call.sleeps = 0
       /\ rm.pc = "idle" /\ rm.outcomes = <<>> /\ rm.sleeps = <<>>
       /\ rm.total_retries = rs.call.retries_before
       /\ cb.total_calls = rs.call.cb_before.total_calls
       /\ cb.state = OPEN
       /\ rs.call.exc.kind = "CircuitOpenError"
       /\ IF Dep \in rs.chains
          THEN rs.pc = "fallback"
               \/ rs.call.outcome \in {"chain_result", "chain_raise"}
          ELSE rs.call.outcome = "raise" /\ rs.call.raised = rs.call.exc

\* the first request trips the breaker after two failed attempts; the
\* second, one second later with a timeout of two, is turned away
C18_Witness ==
    /\ rs.pc = "idle"
    /\ rs.call.open_at_entry
    /\ Dep \notin rs.chains
    /\ rs.call.outcome = "raise"
    /\ rs.call.raised = CircuitOpenError(1)
    /\ rm.total_retries = 2
    /\ cb.total_calls = 1

(* --------------------- ConfigAnnealer.run_annealing --------------------- *)

InitAN ==
    /\ an = ConfigAnnealerInit
    /\ hm = HealthMonitorInit
    /\ pt = NoPerturb
    /\ os = NoOverall
    /\ ap = AvatarPoolInit(1)
    /\ config = CircuitBreakerConfigDefault
    /\ cb = CircuitBreakerInit
    /\ lock = Free
    /\ pc = [t \in Tasks |-> "idle"]
    /\ result = [t \in Tasks |-> "none"]
    /\ now = 0
    /\ hist = HistInit
    /\ rm = RetryManagerInit(RetryConfigDefault)
    /\ fc = FallbackChainInit
    /\ rs = ResilientServiceInit({})

\* register_parameter at startup, before annealing is started
ANRegisterParameter(name, value) ==
    /\ an.pc = "idle"
    /\ name \notin DOMAIN an.parameters
    /\ an' = [register_parameter(an, name, value) EXCEPT
                !.last_step = "registered"]
    /\ UNCHANGED notAN

\* run_annealing entered: _running, a fresh AnnealingState, best_config
\* taken from the current values, initial metrics awaited
ANRunAnnealing(max_iterations, early_stop_iterations) ==
    /\ an.pc = "idle"
    /\ an' = [an EXCEPT
                !._running = TRUE,
                !.state = [AnnealingState EXCEPT
                             !.best_config = current_config(an)],
                !.max_iterations = max_iterations,
                !.early_stop_iterations = early_stop_iterations,
                !.pc = "initial_metrics",
                !.last_step = "started",
                !.cause = "none",
                !.measured_min = InfScore,
                !.measured_config = current_config(an)]
    /\ UNCHANGED notAN

\* the initial metrics arrive: current_score and best_score, then the loop
ANInitialMetrics(score) ==
    /\ an.pc = "initial_metrics"
    /\ an' = while_top([an EXCEPT !.state.current_score = score,
                                  !.state.best_score = score,
                                  !.measured_min = score])
    /\ UNCHANGED notAN

\* the initial metrics collection raises: best_config is returned
ANInitialMetricsFail ==
    /\ an.pc = "initial_metrics"
    /\ an' = [an EXCEPT !.pc = "returned", !.cause = "initial_metrics_failed"]
    /\ UNCHANGED notAN

\* anneal_step up to asyncio.sleep: a neighbor is generated and applied
ANAnnealStep(new_config) ==
    /\ an.pc = "step"
    /\ new_config \in generate_neighbor(an)
    /\ an' = [apply_config(an, new_config) EXCEPT
                !.new_config = new_config,
                !.old_config = current_config(an),
                !.pc = "sleep"]
    /\ UNCHANGED notAN

\* asyncio.sleep(0.5) is over: metrics_collector is awaited
ANSleepOver ==
    /\ an.pc = "sleep"
    /\ an' = [an EXCEPT !.pc = "metrics"]
    /\ UNCHANGED notAN

\* metrics collection raises: the old configuration is applied again and
\* anneal_step returns
ANMetricsFail ==
    /\ an.pc = "metrics"
    /\ an' = [revert(an) EXCEPT !.pc = "stepped",
                                !.last_step = "metrics_failed"]
    /\ UNCHANGED notAN

\* metrics arrive with score new_score; lucky says whether random.random()
\* fell under an acceptance probability strictly between 0 and 1
ANMetrics(new_score, lucky) ==
    /\ an.pc = "metrics"
    /\ LET acc == accepted(an.state.current_score, new_score, lucky)
           a1 == IF acc
                 THEN IF new_score < an.state.best_score
                      THEN [an EXCEPT
                              !.state.current_score = new_score,
                              !.state.best_score = new_score,
                              !.state.best_config = an.new_config,
                              !.state.last_improvement = an.state.iteration]
                      ELSE [an EXCEPT !.state.current_score = new_score]
                 ELSE revert(an)
           lower == new_score < an.measured_min
       IN an' = [a1 EXCEPT
                    !.state.iteration = @ + 1,
                    !.pc = "stepped",
                    !.last_step = IF acc THEN "accepted" ELSE "rejected",
                    !.measured_min = IF lower THEN new_score ELSE @,
                    !.measured_config =
                        IF lower THEN current_config(an) ELSE @]
    /\ UNCHANGED notAN

\* anneal_step has returned to run_annealing: the for loop goes on, or the
\* temperature is lowered and the while loop is looked at again
ANLoop ==
    /\ an.pc = "stepped"
    /\ an' = after_step(an)
    /\ UNCHANGED notAN

\* stop(), called while run_annealing is suspended
ANStop ==
    /\ an.pc \in {"initial_metrics", "sleep", "metrics"}
    /\ an._running
    /\ an' = [an EXCEPT !._running = FALSE]
    /\ UNCHANGED notAN

NextAN ==
    \/ \E n \in ParamNames, v \in InitialValues : ANRegisterParameter(n, v)
    \/ \E m \in {1, MaxIterations}, e \in EarlyStopChoices :
            ANRunAnnealing(m, e)
    \/ \E sc \in Scores : ANInitialMetrics(sc)
    \/ ANInitialMetricsFail
    \/ \E c \in Configs : ANAnnealStep(c)
    \/ ANSleepOver
    \/ ANMetricsFail
    \/ \E sc \in Scores, lucky \in BOOLEAN : ANMetrics(sc, lucky)
    \/ ANLoop
    \/ ANStop

SpecAN == InitAN /\ [][NextAN]_vars

\* asyncio runs every coroutine that is ready, the sleep ends, and every
\* call of the metrics collector returns or raises
FairSpecAN ==
    /\ SpecAN
    /\ WF_vars((\E sc \in Scores : ANInitialMetrics(sc)) \/ ANInitialMetricsFail)
    /\ WF_vars(\E c \in Configs : ANAnnealStep(c))
    /\ WF_vars(ANSleepOver)
    /\ WF_vars((\E sc \in Scores, lucky \in BOOLEAN : ANMetrics(sc, lucky))
                  \/ ANMetricsFail)
    /\ WF_vars(ANLoop)

(* --------------------- properties of the ConfigAnnealer ----------------- *)

\* C19: every registered parameter has min_value <= current_value <=
\* max_value in every state: after registration with any initial value,
\* after every anneal_step and after run_annealing returns.
C19_CurrentValueInRange ==
    \A n \in DOMAIN an.parameters :
        /\ an.parameters[n].min_value <= an.parameters[n].current_value
        /\ an.parameters[n].current_value <= an.parameters[n].max_value

\* C20: when run_annealing has returned, whatever ended it, best_config
\* has an entry for every registered parameter and every parameter's
\* current_value is that entry.
C20_BestConfigApplied ==
    an.pc = "returned"
    => /\ DOMAIN an.state.best_config = DOMAIN an.parameters
       /\ \A n \in DOMAIN an.parameters :
             an.parameters[n].current_value = an.state.best_config[n]

\* stop() ends a run over two parameters in which a worse neighbor was
\* accepted after the best one was found
C20_Witness ==
    /\ an.pc = "returned"
    /\ an.cause = "stop"
    /\ DOMAIN an.parameters = ParamNames
    /\ an.state.iteration >= 2
    /\ an.state.best_score < an.state.current_score
    /\ \A n \in ParamNames :
          an.parameters[n].current_value = an.state.best_config[n]

\* run_annealing is executing
InRun == an.pc \in {"initial_metrics", "step", "sleep", "metrics", "stepped"}

\* C21: when run_annealing returns, state.iteration <= max_iterations: no
\* more than max_iterations anneal steps were performed.
C21_IterationsWithinMax ==
    an.pc = "returned" => an.state.iteration <= an.max_iterations

\* C22: within a run, best_score <= current_score, best_score is the
\* lowest of the baseline score and the scores measured so far, and
\* best_config is the configuration that was applied when that score was
\* measured.
C22_BestIsMinimumMeasured ==
    an.pc # "idle"
    => /\ an.state.best_score <= an.state.current_score
       /\ an.state.best_score = an.measured_min
       /\ an.state.best_config = an.measured_config

\* a worse candidate has been accepted after the best one was measured
C22_Witness ==
    /\ an.pc = "stepped"
    /\ an.last_step = "accepted"
    /\ an.state.iteration >= 2
    /\ an.state.best_score < an.state.current_score
    /\ an.state.best_score = an.measured_min
    /\ an.state.best_config = an.measured_config
    /\ an.state.best_config # current_config(an)

\* C23: an anneal_step whose candidate is rejected, or whose metrics
\* collection raises, returns with every current_value equal to the
\* snapshot taken when the step began, and with best_score, best_config
\* and current_score as they were.
C23_RejectedStepRestores ==
    [][(/\ an.pc = "metrics"
        /\ an'.pc = "stepped"
        /\ an'.last_step \in {"rejected", "metrics_failed"})
       => /\ current_config(an') = an.old_config
          /\ an'.state.best_score = an.state.best_score
          /\ an'.state.best_config = an.state.best_config
          /\ an'.state.current_score = an.state.current_score]_vars

\* a candidate that changed a parameter has been rejected
C23_Witness ==
    /\ an.pc = "stepped"
    /\ an.last_step = "rejected"
    /\ an.new_config # an.old_config
    /\ current_config(an) = an.old_config

\* C24: run_annealing, once entered, eventually returns, whatever the
\* draws and whichever metrics collections fail.
C24_RunAnnealingReturns ==
    (an.pc = "initial_metrics") ~> (an.pc = "returned")

\* every metrics collection after the first failed: no iteration was
\* counted and the temperature ended the run
C24_Witness ==
    /\ an.pc = "returned"
    /\ an.cause = "min_temperature"
    /\ an.last_step = "metrics_failed"
    /\ an.state.iteration = 0

\* stop() was called during the run that is executing
StopRequested == InRun /\ ~an._running

\* C25: after stop() during run_annealing no anneal step is started, the
\* step in flight goes on to its end, and run_annealing returns with
\* best_config applied.
C25_StopEndsRun ==
    /\ [](an.pc = "step" => an._running)
    /\ [][(an.pc \in {"sleep", "metrics"} /\ ~an._running)
          => an'.pc \in {"sleep", "metrics", "stepped"}]_vars
    /\ StopRequested
          ~> (/\ an.pc = "returned"
              /\ an.cause \in {"stop", "initial_metrics_failed"}
              /\ \A n \in DOMAIN an.parameters :
                    an.parameters[n].current_value = an.state.best_config[n])

\* stop() during the first of the steps allowed: that step is counted and
\* the run ends
C25_Witness ==
    /\ an.pc = "returned"
    /\ an.cause = "stop"
    /\ ~an._running
    /\ an.max_iterations = MaxIterations
    /\ an.state.iteration = 1
    /\ an.last_step = "accepted"
    /\ \A n \in DOMAIN an.parameters :
          an.parameters[n].current_value = an.state.best_config[n]

(* --------------- further properties of the CircuitBreaker --------------- *)

\* C27: half_open_calls <= half_open_max_calls in every state, whatever
\* the calls and resets.
C27_HalfOpenCallsBounded ==
    cb.half_open_calls <= config.half_open_max_calls

\* HalfOpen with every counted slot taken, and a call rejected there
C27_Witness ==
    /\ cb.state = HALF_OPEN
    /\ cb.half_open_calls = config.half_open_max_calls
    /\ hist.episode_admitted = config.half_open_max_calls + 1
    /\ \E t \in Tasks : result[t] = "CircuitOpenError" /\ pc[t] = "idle"

Fresh(b) ==
    /\ b.state = CLOSED
    /\ b.failure_count = 0
    /\ b.success_count = 0
    /\ b.half_open_calls = 0

\* C29: reset() from any state leaves the breaker Closed with
\* failure_count, success_count and half_open_calls 0, and a call whose
\* admission check finds it so is admitted and invokes the function.
C29_ResetThenAdmitted ==
    [][/\ Reset => (Fresh(cb') /\ _can_execute(cb', config, now').ok)
       /\ \A t \in Tasks :
             (AdmitStep(t) /\ Fresh(cb)) => (Admitted(t) /\ Fresh(cb'))]_vars

\* a call admitted by a breaker that reset() took out of Open
C29_Witness ==
    /\ hist.last_edge = <<OPEN, CLOSED>>
    /\ hist.last_by = "reset"
    /\ Fresh(cb)
    /\ cb.total_failures > 0
    /\ \E t \in Tasks : pc[t] = "running"

(* ------------------------- HealthMonitor loop --------------------------- *)

OthersInit ==
    /\ os = NoOverall
    /\ ap = AvatarPoolInit(1)
    /\ config = CircuitBreakerConfigDefault
    /\ cb = CircuitBreakerInit
    /\ lock = Free
    /\ pc = [t \in Tasks |-> "idle"]
    /\ result = [t \in Tasks |-> "none"]
    /\ now = 0
    /\ hist = HistInit
    /\ rm = RetryManagerInit(RetryConfigDefault)
    /\ fc = FallbackChainInit
    /\ rs = ResilientServiceInit({})

InitHM ==
    /\ hm = HealthMonitorInit
    /\ an = ConfigAnnealerInit
    /\ pt = NoPerturb
    /\ OthersInit

\* register(name, health_check) at startup, before the monitor is started
HMRegister(name) ==
    /\ hm.loops = <<>>
    /\ name \notin DOMAIN hm.services
    /\ hm' = [hm EXCEPT !.services =
                 [n \in DOMAIN @ \cup {name} |->
                     IF n = name THEN ServiceHealth ELSE @[n]]]
    /\ UNCHANGED notHM

\* start() when no loop is running: the flag is set and the loop task made
HMStart ==
    /\ ~hm._running
    /\ Len(hm.loops) < MaxStarts
    /\ hm' = [hm EXCEPT !._running = TRUE,
                        !.loops = Append(@, LoopInit),
                        !._task = Len(hm.loops) + 1]
    /\ UNCHANGED notHM

\* the loop task runs for the first time
HMLoopRun(i) ==
    /\ i \in DOMAIN hm.loops
    /\ hm.loops[i].pc = "created"
    /\ ~hm.loops[i].must_cancel
    /\ hm._running => TotalRounds(hm) < MaxRounds
    /\ hm' = _monitor_loop_top(hm, i)
    /\ UNCHANGED notHM

\* a health check of loop i returns
HMCheckReturns(i, name, latency) ==
    /\ i \in DOMAIN hm.loops
    /\ hm.loops[i].pc = "gather"
    /\ ~hm.loops[i].must_cancel
    /\ name \in DOMAIN hm.loops[i].checks
    /\ hm.loops[i].checks[name] = "in_flight"
    /\ hm' = check_done([hm EXCEPT !.services[name] =
                             check_service_returns(@, latency)], i, name)
    /\ UNCHANGED notHM

\* a health check of loop i raises
HMCheckRaises(i, name, kind) ==
    /\ i \in DOMAIN hm.loops
    /\ hm.loops[i].pc = "gather"
    /\ ~hm.loops[i].must_cancel
    /\ name \in DOMAIN hm.loops[i].checks
    /\ hm.loops[i].checks[name] = "in_flight"
    /\ hm' = check_done([hm EXCEPT !.services[name] =
                             check_service_raises(@, kind)], i, name)
    /\ UNCHANGED notHM

\* asyncio.sleep(check_interval) is over: the while test, and the next
\* check_all if the flag is still set
HMSleepOver(i) ==
    /\ i \in DOMAIN hm.loops
    /\ hm.loops[i].pc = "sleep"
    /\ ~hm.loops[i].must_cancel
    /\ hm._running => TotalRounds(hm) < MaxRounds
    /\ hm' = _monitor_loop_top(hm, i)
    /\ UNCHANGED notHM

\* stop() is called by s and runs to `await self._task`
HMStop(s) ==
    /\ hm.stop[s] = NoTask
    /\ hm._running \/ hm._task # NoTask
    /\ hm' = stop_begin(hm, s)
    /\ UNCHANGED notHM

\* the cancelled loop task is run: it ends where it was suspended
HMLoopCancelled(i) ==
    /\ i \in DOMAIN hm.loops
    /\ Alive(hm.loops[i])
    /\ hm.loops[i].must_cancel
    /\ hm' = cancelled(hm, i)
    /\ UNCHANGED notHM

\* the task s awaits has ended: stop() sets _task to None and returns
HMStopEnd(s) ==
    /\ hm.stop[s] # NoTask
    /\ ~Alive(hm.loops[hm.stop[s]])
    /\ hm' = [hm EXCEPT !._task = NoTask, !.stop[s] = NoTask]
    /\ UNCHANGED notHM

LoopIds == 1..(MaxStarts + 1)

NextHM ==
    \/ \E name \in ServiceNames : HMRegister(name)
    \/ HMStart
    \/ \E i \in LoopIds : HMLoopRun(i)
    \/ \E i \in LoopIds, name \in ServiceNames, latency \in Latencies :
          HMCheckReturns(i, name, latency)
    \/ \E i \in LoopIds, name \in ServiceNames, kind \in HealthExcKinds :
          HMCheckRaises(i, name, kind)
    \/ \E i \in LoopIds : HMSleepOver(i)
    \/ \E s \in Stoppers : HMStop(s)
    \/ \E i \in LoopIds : HMLoopCancelled(i)
    \/ \E s \in Stoppers : HMStopEnd(s)

SpecHM == InitHM /\ [][NextHM]_vars

\* C26: a health check in flight when stop() is called runs to its end and
\* its outcome is recorded, and the loop does not end inside check_all.
C26_InFlightCheckCompletes ==
    \A i \in DOMAIN hm.loops :
       /\ \A n \in DOMAIN hm.loops[i].checks :
             hm.loops[i].checks[n] # "cancelled"
       /\ hm.loops[i].ended_at # "gather"

(* --------------------------- ConfigParameter ---------------------------- *)

InitPT ==
    /\ pt \in {[param |-> p, out |-> 0, pc |-> "start"] : p \in PerturbParams}
    /\ an = ConfigAnnealerInit
    /\ hm = HealthMonitorInit
    /\ OthersInit

\* perturb(temperature) returns
PTPerturb ==
    /\ pt.pc = "start"
    /\ \E v \in perturb(pt.param) :
          pt' = [pt EXCEPT !.out = v, !.pc = "perturbed"]
    /\ UNCHANGED notPT

\* the value returned is written to current_value, as apply_config does
\* with the neighbor's values
PTApply ==
    /\ pt.pc = "perturbed"
    /\ pt.param.current_value # pt.out
    /\ pt' = [pt EXCEPT !.param.current_value = pt.out, !.pc = "start"]
    /\ UNCHANGED notPT

NextPT == PTPerturb \/ PTApply

SpecPT == InitPT /\ [][NextPT]_vars

\* C30: the value perturb returns lies in [min_value, max_value], for
\* integer parameters too.
C30_PerturbInRange ==
    pt.pc = "perturbed"
    => /\ pt.param.min_value <= pt.out
       /\ pt.out <= pt.param.max_value

(* --------------------- properties of check_service ---------------------- *)

\* the step in which check_service(name) of loop i ends
CheckEnds(i, name) ==
    /\ i \in DOMAIN hm.loops
    /\ name \in DOMAIN hm.loops[i].checks
    /\ hm.loops[i].checks[name] = "in_flight"
    /\ hm'.loops[i].checks[name] = "recorded"

\* C31: after a check_service whose health check returned,
\* consecutive_failures is 0, consecutive_successes is one more than
\* before, and status is Healthy for a latency below 100 ms and Degraded
\* otherwise, never Unhealthy.
C31_ReturnedCheckRecorded ==
    [][\A i \in LoopIds, name \in ServiceNames :
          (CheckEnds(i, name) /\ hm'.services[name].metadata = "result")
          => LET before == hm.services[name]
                 after == hm'.services[name] IN
             /\ after.consecutive_failures = 0
             /\ after.consecutive_successes = before.consecutive_successes + 1
             /\ after.latency_ms \in Latencies
             /\ after.status = IF after.latency_ms < 100 THEN HEALTHY
                               ELSE DEGRADED]_vars

\* a check that took longer than both thresholds, after a failed one
C31_Witness ==
    \E name \in DOMAIN hm.services :
       /\ hm.services[name].metadata = "result"
       /\ hm.services[name].latency_ms >= degraded_threshold
       /\ hm.services[name].status = DEGRADED
       /\ hm.services[name].consecutive_successes = 1
       /\ hm.services[name].consecutive_failures = 0
       /\ hm.services[name].error_rate > 0

\* C32: when the health check raises, check_service ends normally with
\* consecutive_failures one more than before, consecutive_successes 0,
\* status Unhealthy and the exception's type in metadata; the exception
\* does not reach check_all or the loop.
C32_RaisedCheckRecorded ==
    [][\A i \in LoopIds, name \in ServiceNames :
          (CheckEnds(i, name) /\ hm'.services[name].metadata # "result")
          => LET before == hm.services[name]
                 after == hm'.services[name] IN
             /\ after.consecutive_failures = before.consecutive_failures + 1
             /\ after.consecutive_successes = 0
             /\ after.status = UNHEALTHY
             /\ after.metadata \in HealthExcKinds
             /\ hm'.loops[i].pc \in {"gather", "sleep"}]_vars

\* a failed check after a successful one; the loop went on to its sleep
C32_Witness ==
    \E name \in DOMAIN hm.services, i \in DOMAIN hm.loops :
       /\ hm.services[name].metadata \in HealthExcKinds
       /\ hm.services[name].status = UNHEALTHY
       /\ hm.services[name].consecutive_failures = 1
       /\ hm.services[name].consecutive_successes = 0
       /\ hm.services[name].latency_ms > 0
       /\ hm.loops[i].pc = "sleep"
       /\ name \in DOMAIN hm.loops[i].checks
       /\ hm.loops[i].checks[name] = "recorded"

(* ------------------- HealthMonitor.get_overall_status ------------------- *)

InitOS ==
    /\ os \in {[services |-> sv, out |-> "none", pc |-> "start"] :
                 sv \in UNION {[S -> {[ServiceHealth EXCEPT !.status = st] :
                                         st \in StatusValues}] :
                               S \in SUBSET OverallNames}}
    /\ ap = AvatarPoolInit(1)
    /\ hm = HealthMonitorInit
    /\ an = ConfigAnnealerInit
    /\ pt = NoPerturb
    /\ config = CircuitBreakerConfigDefault
    /\ cb = CircuitBreakerInit
    /\ lock = Free
    /\ pc = [t \in Tasks |-> "idle"]
    /\ result = [t \in Tasks |-> "none"]
    /\ now = 0
    /\ hist = HistInit
    /\ rm = RetryManagerInit(RetryConfigDefault)
    /\ fc = FallbackChainInit
    /\ rs = ResilientServiceInit({})

\* get_overall_status() returns
OSGetOverallStatus ==
    /\ os.pc = "start"
    /\ os' = [os EXCEPT !.out = get_overall_status(os.services),
                        !.pc = "returned"]
    /\ UNCHANGED notOS

NextOS == OSGetOverallStatus

SpecOS == InitOS /\ [][NextOS]_vars

\* worst first: Unhealthy, Degraded, Unknown, Healthy
Severity(st) ==
    CASE st = UNHEALTHY -> 3
      [] st = DEGRADED -> 2
      [] st = UNKNOWN -> 1
      [] OTHER -> 0

\* C33: get_overall_status returns the worst status of the registered
\* services in the order Unhealthy, Degraded, Unknown, Healthy, and
\* Unknown when no service is registered.
C33_OverallIsWorstStatus ==
    os.pc = "returned"
    => IF DOMAIN os.services = {}
       THEN os.out = UNKNOWN
       ELSE /\ \E n \in DOMAIN os.services : os.services[n].status = os.out
            /\ \A n \in DOMAIN os.services :
                  Severity(os.services[n].status) <= Severity(os.out)

\* a Degraded, an Unknown and a Healthy service: Degraded
C33_Witness ==
    /\ os.pc = "returned"
    /\ {os.services[n].status : n \in DOMAIN os.services}
          = {DEGRADED, UNKNOWN, HEALTHY}
    /\ os.out = DEGRADED

(* --------------------------- AvatarPoolManager -------------------------- *)

InitAP ==
    /\ ap \in {AvatarPoolInit(m) : m \in MaxSizes}
    /\ os = NoOverall
    /\ hm = HealthMonitorInit
    /\ an = ConfigAnnealerInit
    /\ pt = NoPerturb
    /\ config = CircuitBreakerConfigDefault
    /\ cb = CircuitBreakerInit
    /\ lock = Free
    /\ pc = [t \in Tasks |-> "idle"]
    /\ result = [t \in Tasks |-> "none"]
    /\ now = 0
    /\ hist = HistInit
    /\ rm = RetryManagerInit(RetryConfigDefault)
    /\ fc = FallbackChainInit
    /\ rs = ResilientServiceInit({})

\* get_avatar(avatar_id, fallback_to_default), the whole call under the lock
APGetAvatar(avatar_id, fallback_to_default, load) ==
    /\ ap.clock < MaxGets
    /\ avatar_id \in Keys(ap._cache) => load = "ok"
    /\ ap' = get_avatar(ap, avatar_id, fallback_to_default, load)
    /\ UNCHANGED notAP

\* preload_avatars(avatar_ids) is called: avatar_ids[:max_size] is to be
\* gone through
APPreloadAvatars(avatar_ids) ==
    /\ ap.preload = <<>>
    /\ ap.clock < MaxGets
    /\ ap' = [ap EXCEPT !.preload = Prefix(avatar_ids, ap.max_size)]
    /\ UNCHANGED notAP

\* one pass of the loop of preload_avatars: a cached id is skipped, any
\* other is loaded by get_avatar, whose exception is caught
APPreloadNext(load) ==
    /\ ap.preload # <<>>
    /\ LET avatar_id == Head(ap.preload) IN
       IF avatar_id \in Keys(ap._cache)
       THEN /\ load = "ok"
            /\ ap' = [ap EXCEPT !.preload = Tail(@)]
       ELSE /\ ap.clock < MaxGets
            /\ ap' = [get_avatar(ap, avatar_id, TRUE, load)
                         EXCEPT !.preload = Tail(@)]
    /\ UNCHANGED notAP

\* remove_from_cache(avatar_id) of a cached avatar
APRemoveFromCache(avatar_id) ==
    /\ avatar_id \in Keys(ap._cache)
    /\ ap' = remove_from_cache(ap, avatar_id)
    /\ UNCHANGED notAP

\* clear_cache() of a cache that holds something
APClearCache ==
    /\ ap._cache # <<>>
    /\ ap' = clear_cache(ap)
    /\ UNCHANGED notAP

NextAP ==
    \/ \E avatar_id \in AvatarIds, fallback_to_default \in BOOLEAN,
          load \in LoadOutcomes :
          APGetAvatar(avatar_id, fallback_to_default, load)
    \/ \E avatar_ids \in PreloadLists : APPreloadAvatars(avatar_ids)
    \/ \E load \in LoadOutcomes : APPreloadNext(load)
    \/ \E avatar_id \in AvatarIds : APRemoveFromCache(avatar_id)
    \/ APClearCache

SpecAP == InitAP /\ [][NextAP]_vars

\* C34: the cache never holds more than max_size avatars.
C34_CacheWithinMaxSize ==
    Len(ap._cache) <= ap.max_size

\* a full cache after an eviction and a failed load
C34_Witness ==
    /\ Len(ap._cache) = ap.max_size
    /\ ap.max_size > 1
    /\ ap._stats.evictions > 0
    /\ ap._stats.errors > 0
    /\ ap.last.returned # "none"
    /\ ap.last.load = "ok"

\* a get_avatar call was made in this step
GetAvatarStep == ap'.clock = ap.clock + 1

\* C35: the avatar evicted on a miss with a full cache is the cached one
\* whose last get_avatar is the oldest, and a hit makes its avatar the most
\* recently used one.
C35_EvictsLeastRecentlyUsed ==
    [][GetAvatarStep
       => /\ ap'.last.evicted # "none"
             => /\ ap'.last.evicted \in Keys(ap._cache)
                /\ \A i, j \in 1..Len(ap._cache) :
                      (ap._cache[i].id = ap'.last.evicted /\ j # i)
                      => ap._cache[i].last_access < ap._cache[j].last_access
          /\ ap'.last.avatar_id \in Keys(ap._cache)
             => /\ ap'.last.evicted = "none"
                /\ Keys(ap'._cache) = Keys(ap._cache)
                /\ \E i \in 1..Len(ap'._cache) :
                      /\ ap'._cache[i].id = ap'.last.avatar_id
                      /\ ap'._cache[i].last_access = ap'.clock
          /\ \A i, j \in 1..Len(ap'._cache) :
                i < j
                => ap'._cache[i].last_access < ap'._cache[j].last_access]_vars

\* a was loaded before b and hit after it: the miss of c evicts b
C35_Witness ==
    /\ ap.max_size = 2
    /\ ap.clock = 4
    /\ ap.last.avatar_id = "c"
    /\ ap.last.evicted = "b"
    /\ ap._stats.hits = 1
    /\ Len(ap._cache) = 2
    /\ ap._cache[1].id = "a"
    /\ ap._cache[1].last_access = 3
    /\ ap._cache[2].id = "c"

\* C36: with fallback_to_default a get_avatar whose load fails for a
\* missing directory or missing files, called with an avatar cached,
\* returns a cached instance and does not raise.
C36_FallbackReturnsCached ==
    (/\ ap.last.fallback_to_default
     /\ ap.last.load \in {"FileNotFoundError", "ValueError"}
     /\ ap.last.cached_before # {})
    => /\ ap.last.raised = "none"
       /\ ap.last.returned \in ap.last.cached_before

(* ------------------- recovery of the CircuitBreaker --------------------- *)

\* configurations with one counted HalfOpen slot and a success_threshold
\* within and beyond the calls HalfOpen admits
RecoveryConfigs ==
    [failure_threshold : {1},
     success_threshold : {2, 3},
     timeout_seconds : {1},
     half_open_max_calls : {1},
     excluded_exceptions : {{}}]

InitCBR ==
    /\ config \in RecoveryConfigs
    /\ cb = CircuitBreakerInit
    /\ lock = Free
    /\ pc = [t \in Tasks |-> "idle"]
    /\ result = [t \in Tasks |-> "none"]
    /\ now = 0
    /\ hist = HistInit
    /\ rm = RetryManagerInit(RetryConfigDefault)
    /\ fc = FallbackChainInit
    /\ rs = ResilientServiceInit({})
    /\ an = ConfigAnnealerInit
    /\ hm = HealthMonitorInit
    /\ pt = NoPerturb
    /\ os = NoOverall
    /\ ap = AvatarPoolInit(1)

SpecCBR == InitCBR /\ [][NextCB]_vars

\* HalfOpen with no call in flight and every further call rejected,
\* although every call admitted since HalfOpen was entered succeeded: only
\* reset() changes the breaker from here
Stranded ==
    /\ cb.state = HALF_OPEN
    /\ \A t \in Tasks : pc[t] = "idle"
    /\ ~_can_execute(cb, config, now).ok
    /\ hist.ho_streak = hist.episode_admitted

\* C37: when every admitted call succeeds the breaker gets back to Closed:
\* it is never left in HalfOpen rejecting every call.
C37_RecoveryAlwaysPossible == ~Stranded

(* ------------------ start() and stop() of the HealthMonitor ------------- *)

\* the loops that will run check_all again: alive, not cancelled, and
\* finding the flag set at their next while test
LiveLoops ==
    {i \in DOMAIN hm.loops :
        Alive(hm.loops[i]) /\ ~hm.loops[i].must_cancel /\ hm._running}

\* _task is None after a start() exactly when a stop() completed and no
\* start() was called since: start() sets it, only stop() clears it
StoppedLast == Len(hm.loops) > 0 /\ hm._task = NoTask

\* C38: at most one monitor loop is alive at any time, and once a stop()
\* has completed with no later start() no loop remains that runs check_all
\* again.
C38_StoppedMeansNoLoop ==
    /\ Cardinality(LiveLoops) <= 1
    /\ StoppedLast => LiveLoops = {}

(* ------------------- the running flag of the annealer ------------------- *)

\* get_status()["running"]
get_status_running == an._running

\* C39: once run_annealing has returned get_status()["running"] is False,
\* and it is True only while a run_annealing call is in progress.
C39_RunningOnlyDuringRun ==
    /\ an.pc = "returned" => ~get_status_running
    /\ get_status_running => InRun

(* ------------------- reset_metrics of ResilientService ------------------ *)

\* reset_metrics is synchronous: it runs between two steps of a
\* call_dependency suspended in the breaker, the retry sleep or the chain,
\* or while no call is in flight
RSResetMetrics ==
    /\ rs.resets < MaxResets
    /\ rs' = reset_metrics(rs)
    /\ UNCHANGED <<cbVars, rm, fc, an, hm, pt, os, ap>>

\* one dependency registered as api_resilience does, with a breaker that
\* opens at the second failure and one retry
ResetBreakerConfig ==
    [failure_threshold |-> 2, success_threshold |-> 1, timeout_seconds |-> 1,
     half_open_max_calls |-> 1, excluded_exceptions |-> {}]
ResetRetryConfig ==
    [max_attempts |-> 2, base_delay |-> 1, max_delay |-> 60,
     exponential_base |-> 2, jitter |-> FALSE,
     retryable_exceptions |-> RetryExcKinds,
     non_retryable_exceptions |-> {}]

InitRSM ==
    /\ config = ResetBreakerConfig
    /\ cb = CircuitBreakerInit
    /\ lock = Free
    /\ pc = [t \in Tasks |-> "idle"]
    /\ result = [t \in Tasks |-> "none"]
    /\ now = 0
    /\ hist = HistInit
    /\ rm = RetryManagerInit(ResetRetryConfig)
    /\ \E ch \in RSChains :
          /\ rs = ResilientServiceInit(ch[1])
          /\ fc = ch[2]
    /\ an = ConfigAnnealerInit
    /\ hm = HealthMonitorInit
    /\ pt = NoPerturb
    /\ os = NoOverall
    /\ ap = AvatarPoolInit(1)

NextRSM ==
    \/ RSCallDependency
    \/ RSRetryExecute
    \/ RSFuncReturns
    \/ \E k \in RSExcKinds, rnd \in RandomSamples : RSFuncRaises(k, rnd)
    \/ RSWake
    \/ RSBreakerSuccess
    \/ RSBreakerFailure
    \/ RSPrimaryReturns
    \/ RSPrimaryRaises
    \/ RSFallbackReturns
    \/ RSFallbackRaises
    \/ RSFallbackDone
    \/ RSResetMetrics
    \/ Tick

SpecRSM == InitRSM /\ [][NextRSM]_vars

\* C40: _error_count never exceeds _request_count, also when reset_metrics
\* runs while a call_dependency is in flight.
C40_ErrorsWithinRequests == rs._error_count <= rs._request_count

=============================================================================
